---- MODULE Spec2Model ----
(***************************************************************************)
(* A model of the aurc-native minimal compiler pipeline                    *)
(* (src/src/aurc_native/src/compiler_stub.c, main.c):                      *)
(*   source lines -> parse_source -> validate_program -> emit_manifest     *)
(*   -> aurc_assemble_manifest, plus a step-by-step evaluation of the      *)
(*   emitted instruction words.                                            *)
(*                                                                         *)
(* Text is modelled at the level the code inspects it.  A source line is  *)
(* a record naming the statement form it is written in and the texts of   *)
(* its fields; a manifest line is a directive keyword and the characters  *)
(* that follow it.  Identifier and numeral texts are strings, string      *)
(* literals and directive arguments are sequences of one-character        *)
(* strings.                                                                *)
(***************************************************************************)
EXTENDS Integers, Sequences, FiniteSets, TLC

VARIABLES
    pc,          \* position of the pipeline run
    src,         \* the trimmed, non-empty lines of the input file
    ran,         \* the recognizers parse_source has called, in order
    ir,          \* program_ir of the run
    err,         \* diagnostic of load_program_ir ("" when none)
    loadrc,      \* return code of load_program_ir (-1: not run)
    emitrc,      \* return code of emit_manifest (-1: not run)
    mopen,       \* number of times the manifest output was opened (fopen "w")
    manifest,    \* lines of the manifest file
    bopen,       \* number of times the binary output was opened (fopen "wb")
    binary,      \* bytes of the binary output file
    asmrc,       \* return code of aurc_assemble_manifest (-1: not run)
    cpu,         \* evaluation of the instruction words of the manifest
    paths,       \* main: which of output_path, binary_path, exe_path are not NULL
    stages,      \* main: the stages started, in order
    exerc,       \* return code of aurc_compile_to_exe (-1: not run)
    exit_status, \* main: the value returned (-1: still running)
    handles      \* the FILE handles that are open

dvars == <<paths, stages, exerc, exit_status, handles>>

vars == <<pc, src, ran, ir, err, loadrc, emitrc, mopen, manifest, bopen, binary, asmrc, cpu,
          paths, stages, exerc, exit_status, handles>>

(***************************************************************************)
(* Bounds of the model                                                     *)
(***************************************************************************)
MaxLitLen == 2        \* longest string literal of a generated String program
MaxCounter == 3       \* largest loop counter initial value
MaxManifestLines == 2 \* longest hand-written manifest given to the assembler
MaxBindings == 9
MaxCompilations == 2      \* most string declarations of a generated String program

(***************************************************************************)
(* Enumerations and limits of the program                                  *)
(***************************************************************************)
MAX_STRING_BINDINGS == 8
MAX_INT_BINDINGS == 8

PROGRAM_NONE == 0
PROGRAM_STRING == 1
PROGRAM_LOOP_SUM == 2
PROGRAM_PI_TEST == 3

ISA_OPCODE_MOV == 1
ISA_OPCODE_ADD == 4
ISA_OPCODE_SUB == 5
ISA_OPCODE_CMP == 6
ISA_OPCODE_JMP == 7
ISA_OPCODE_CJMP == 8
ISA_OPCODE_SVC == 11
ISA_OPCODE_HALT == 12
ISA_OPCODE_MUL == 13
ISA_OPCODE_DIV == 14
ISA_OPCODE_REM == 15

ISA_REG_R0 == 0
ISA_REG_R1 == 1
ISA_REG_R2 == 2
ISA_REG_R3 == 3
ISA_REG_R4 == 4
ISA_REG_R5 == 5
ISA_REG_R6 == 6
ISA_REG_R7 == 7

ISA_COND_EQ == 1
ISA_COND_NE == 2
ISA_COND_LT == 3
ISA_COND_LE == 4
ISA_COND_GT == 5
ISA_COND_GE == 6

ISA_OPERAND_UNUSED == 0
ISA_OPERAND_LABEL == 254
ISA_OPERAND_IMMEDIATE == 255

RUNTIME_NONE == 0
RUNTIME_PRINT_AND_EXIT == 1
RUNTIME_EXIT_WITH_R0 == 2

EXIT_SUCCESS == 0
EXIT_FAILURE == 1
INT32_MAX == 2147483647
INT32_MIN == -2147483647 - 1

(***************************************************************************)
(* Source text                                                             *)
(*                                                                         *)
(* k        the line as written                                            *)
(* letstr   let N: string = "LIT";                                         *)
(* letint   let N: int = X;                                                *)
(* letmul   let N: int = X * Y;                                            *)
(* letdiv   let N: int = X / Y;                                            *)
(* while    while N > Y {                  (N = "": the bare word while)   *)
(* add      N = X + Y;                                                     *)
(* sub      N = X - Y;                                                     *)
(* close    }                                                              *)
(* print    request service print(X);                                      *)
(* exit     request service exit(X);                                       *)
(* return   return X;                                                      *)
(* other    any other text, its characters in lit                          *)
(***************************************************************************)
Ln(k, n, x, y, lit) == [k |-> k, n |-> n, x |-> x, y |-> y, lit |-> lit]

LetStr(n, lit) == Ln("letstr", n, "", "", lit)
LetInt(n, x) == Ln("letint", n, x, "", <<>>)
LetMul(n, x, y) == Ln("letmul", n, x, y, <<>>)
LetDiv(n, x, y) == Ln("letdiv", n, x, y, <<>>)
While(n, y) == Ln("while", n, "", y, <<>>)
AddStmt(n, x, y) == Ln("add", n, x, y, <<>>)
SubStmt(n, x, y) == Ln("sub", n, x, y, <<>>)
CloseBrace == Ln("close", "", "", "", <<>>)
PrintReq(x) == Ln("print", "", x, "", <<>>)
ExitReq(x) == Ln("exit", "", x, "", <<>>)
ReturnStmt(x) == Ln("return", "", x, "", <<>>)
OtherLine(lit) == Ln("other", "", "", "", lit)

\* strchr(text, c) != NULL on a character sequence
HasChar(s, c) == \E i \in 1..Len(s) : s[i] = c

\* strncmp(line, "let ", 4) == 0
StartsWithLet(l) == l.k \in {"letstr", "letint", "letmul", "letdiv"}

\* strncmp(line, "while", 5) == 0
StartsWithWhile(l) == l.k = "while"

\* strstr(line, ": string =") != NULL
HasStringDecl(l) == l.k = "letstr"

\* strstr(line, ": int =") != NULL
HasIntDecl(l) == l.k \in {"letint", "letmul", "letdiv"}

\* strchr(line, '*') != NULL || strchr(line, '/') != NULL
HasMulOrDiv(l) == l.k \in {"letmul", "letdiv"} \/ HasChar(l.lit, "*") \/ HasChar(l.lit, "/")

(***************************************************************************)
(* Decimal numerals.  A numeral text denotes q * 2^32 + r with r in the    *)
(* signed 32-bit range; q # 0 exactly when the value is out of that range. *)
(***************************************************************************)
SmallInts == -9 .. 30

BigNumerals == {"4294967301", "-4294967291", "4294967296"}

IsNumeral(t) == t \in BigNumerals \/ \E i \in SmallInts : ToString(i) = t

\* strtoll(text, &end, 10) of a text that is a numeral throughout
strtoll(t) ==
    CASE t = "4294967301" -> [q |-> 1, r |-> 5]
      [] t = "-4294967291" -> [q |-> -1, r |-> 5]
      [] t = "4294967296" -> [q |-> 1, r |-> 0]
      [] OTHER -> [q |-> 0, r |-> CHOOSE i \in SmallInts : ToString(i) = t]

\* (int)value of a long long: the low 32 bits
ToInt(v) == v.r

\* what %d stores for a numeral: the value when it fits an int; otherwise the
\* behaviour is undefined and the C library either keeps the low 32 bits
\* (ovf = "wrap") or clamps (ovf = "clamp")
ScanfOverflow == {"wrap", "clamp"}

ScanInt(t, ovf) ==
    LET v == strtoll(t) IN
    IF v.q = 0 \/ ovf = "wrap" THEN v.r
    ELSE IF v.q > 0 THEN INT32_MAX ELSE INT32_MIN

(***************************************************************************)
(* program_ir.  bindings holds the first string_binding_count entries of   *)
(* the C array; print_binding_index keeps the C (0-based) index.           *)
(***************************************************************************)
loop_ir0 ==
    [accumulator |-> "", accumulator_init |-> 0, counter |-> "", counter_init |-> 0,
     exit_var |-> "", return_var |-> ""]

pi_ir0 ==
    [numerator_var |-> "", numerator_value |-> 0,
     denominator_var |-> "", denominator_value |-> 0,
     scale_var |-> "", scale_value |-> 0,
     temp_var |-> "", temp_lhs |-> "", temp_rhs |-> "",
     result_var |-> "", result_lhs |-> "", result_rhs |-> "",
     exit_var |-> "", return_var |-> ""]

\* memset(ir, 0, sizeof *ir); ir->print_binding_index = -1;
program_ir0 ==
    [kind |-> PROGRAM_NONE, bindings |-> <<>>, print_binding_index |-> -1,
     print_arg |-> "", have_print |-> 0, exit_value |-> 0, return_value |-> 0,
     have_exit |-> 0, have_return |-> 0, loop |-> loop_ir0, pi |-> pi_ir0]

string_binding_count(p) == Len(p.bindings)

\* a recognizer's or validator's outcome: return code, diagnostic, the IR as left
Outcome(rc, e, p) == [rc |-> rc, err |-> e, ir |-> p]

(***************************************************************************)
(* String recognizer                                                       *)
(***************************************************************************)
find_string_binding_index(p, name) ==
    IF \E i \in 1..Len(p.bindings) : p.bindings[i].name = name
    THEN (CHOOSE i \in 1..Len(p.bindings) :
              /\ p.bindings[i].name = name
              /\ \A j \in 1..(i - 1) : p.bindings[j].name # name) - 1
    ELSE -1

add_string_binding_nodupcheck(p, name, literal) ==
    IF Len(p.bindings) >= MAX_STRING_BINDINGS
    THEN Outcome(-1, "too many string bindings", p)
    ELSE Outcome(Len(p.bindings), "",
                 [p EXCEPT !.bindings = Append(@, [name |-> name, literal |-> literal])])

add_string_binding_nocap(p, name, literal) ==
    IF find_string_binding_index(p, name) >= 0
    THEN Outcome(-1, "duplicate string binding", p)
    ELSE Outcome(Len(p.bindings), "",
                 [p EXCEPT !.bindings = Append(@, [name |-> name, literal |-> literal])])

\* the return value (index of the new binding, or -1) is in rc
add_string_binding(p, name, literal) ==
    IF find_string_binding_index(p, name) >= 0
    THEN Outcome(-1, "duplicate string binding", p)
    ELSE IF Len(p.bindings) >= MAX_STRING_BINDINGS
    THEN Outcome(-1, "too many string bindings", p)
    ELSE Outcome(Len(p.bindings), "",
                 [p EXCEPT !.bindings = Append(@, [name |-> name, literal |-> literal])])

\* one iteration of the for loop of parse_string_program: rc = 1 returns 1,
\* rc = 0 goes on with the next line
parse_string_line(p, l, ovf) ==
    IF StartsWithLet(l) /\ l.k = "letstr" /\ l.lit # <<>>
    THEN \* sscanf matched the name and a non-empty literal
         LET a == add_string_binding(p, l.n, l.lit) IN
         IF a.rc < 0 THEN Outcome(1, a.err, p) ELSE Outcome(0, "", a.ir)
    ELSE IF l.k = "print" /\ l.x # ""
    THEN \* open && close && close > open + 1
         LET q == [p EXCEPT !.print_arg = l.x, !.have_print = 1]
             idx == find_string_binding_index(q, l.x)
         IN Outcome(0, "", IF idx >= 0 THEN [q EXCEPT !.print_binding_index = idx] ELSE q)
    ELSE IF l.k = "exit" /\ IsNumeral(l.x)
    THEN Outcome(0, "", [p EXCEPT !.exit_value = ScanInt(l.x, ovf), !.have_exit = 1])
    ELSE IF l.k = "return" /\ IsNumeral(l.x)
    THEN Outcome(0, "", [p EXCEPT !.return_value = ScanInt(l.x, ovf), !.have_return = 1])
    ELSE Outcome(0, "", p)

RECURSIVE parse_string_from(_, _, _, _)
parse_string_from(lines, i, p, ovf) ==
    IF i > Len(lines) THEN Outcome(0, "", [p EXCEPT !.kind = PROGRAM_STRING])
    ELSE \* o: the outcome of line i, computed once
         CHOOSE r \in {IF o.rc # 0 THEN o ELSE parse_string_from(lines, i + 1, o.ir, ovf) :
                          o \in {parse_string_line(p, lines[i], ovf)}} : TRUE

parse_string_program(lines, p, ovf) == parse_string_from(lines, 1, p, ovf)

(***************************************************************************)
(* Integer bindings of the Loop-Sum and Pi recognizers                     *)
(***************************************************************************)
\* index of the first binding called name, 0 for NULL
find_binding(bindings, name) ==
    IF \E i \in 1..Len(bindings) : bindings[i].name = name
    THEN CHOOSE i \in 1..Len(bindings) :
             /\ bindings[i].name = name
             /\ \A j \in 1..(i - 1) : bindings[j].name # name
    ELSE 0

(***************************************************************************)
(* Loop-Sum recognizer.  The scan state is the locals of the function:    *)
(* bindings, loop_start (kept 1-based here, 0 for the C value -1),        *)
(* loop_var, and the IR.                                                   *)
(***************************************************************************)
LoopScan(rc, e, bindings, loop_start, loop_var, p) ==
    [rc |-> rc, err |-> e, bindings |-> bindings, loop_start |-> loop_start,
     loop_var |-> loop_var, ir |-> p]

\* one iteration of the first for loop of parse_loop_sum_program
parse_loop_line(s, l, i, ovf) ==
    IF StartsWithLet(l) /\ HasIntDecl(l) /\ IsNumeral(l.x)
    THEN \* sscanf "let %127[^:]: int = %d;" stored a name and a value
         IF find_binding(s.bindings, l.n) # 0
         THEN [s EXCEPT !.rc = 1, !.err = "duplicate int binding"]
         ELSE IF Len(s.bindings) >= MAX_INT_BINDINGS
         THEN [s EXCEPT !.rc = 1, !.err = "too many int bindings"]
         ELSE [s EXCEPT !.bindings =
                   Append(@, [name |-> l.n, value |-> ScanInt(l.x, ovf)])]
    ELSE IF StartsWithWhile(l)
    THEN \* sscanf "while %127[^>]> 0 {" returns 1 once the variable is read
         IF l.n # "" THEN [s EXCEPT !.loop_var = l.n, !.loop_start = i] ELSE s
    ELSE IF l.k = "exit"
    THEN IF l.x = "" THEN [s EXCEPT !.rc = 1, !.err = "malformed exit statement"]
         ELSE [s EXCEPT !.ir.loop.exit_var = l.x]
    ELSE IF l.k = "return"
    THEN IF l.x = "" THEN [s EXCEPT !.rc = 1, !.err = "malformed return statement"]
         ELSE [s EXCEPT !.ir.loop.return_var = l.x]
    ELSE s

RECURSIVE parse_loop_scan(_, _, _, _)
parse_loop_scan(lines, i, s, ovf) ==
    IF i > Len(lines) THEN s
    ELSE \* t: the scan state after line i, computed once
         CHOOSE r \in {IF t.rc # 0 THEN t ELSE parse_loop_scan(lines, i + 1, t, ovf) :
                          t \in {parse_loop_line(s, lines[i], i, ovf)}} : TRUE

\* sscanf(add_line, "%127[^=]= %127[^+]+ %127[^;];", ...) == 3
MatchesAdd(l) == l.k = "add" /\ l.n # "" /\ l.x # "" /\ l.y # ""

\* sscanf(sub_line, "%127[^=]= %127[^-]- %127[^;];", ...) == 3
MatchesSub(l) == l.k = "sub" /\ l.n # "" /\ l.x # "" /\ l.y # ""

parse_loop_sum_program_any_step(lines, p, ovf) ==
    LET s == parse_loop_scan(lines, 1, LoopScan(0, "", <<>>, 0, "", p), ovf) IN
    IF s.rc # 0 THEN Outcome(1, s.err, s.ir)
    ELSE IF s.loop_start = 0 THEN Outcome(1, "expected while-loop", s.ir)
    ELSE IF s.loop_start + 2 >= Len(lines) THEN Outcome(1, "loop body too short", s.ir)
    ELSE
    LET add_line == lines[s.loop_start + 1]
        sub_line == lines[s.loop_start + 2]
    IN
    IF ~MatchesAdd(add_line) THEN Outcome(1, "expected accumulator assignment", s.ir)
    ELSE IF ~MatchesSub(sub_line) THEN Outcome(1, "expected counter decrement", s.ir)
    ELSE IF add_line.n # add_line.x
    THEN Outcome(1, "accumulator update must add into same variable", s.ir)
    ELSE IF add_line.y # s.loop_var
    THEN Outcome(1, "accumulator must add loop counter", s.ir)
    ELSE IF sub_line.n # s.loop_var \/ sub_line.x # s.loop_var
    THEN Outcome(1, "counter decrement must target loop counter", s.ir)
    ELSE
    LET acc_binding == find_binding(s.bindings, add_line.n)
        counter_binding == find_binding(s.bindings, s.loop_var)
    IN
    IF acc_binding = 0 \/ counter_binding = 0
    THEN Outcome(1, "accumulator/counter must be defined via let", s.ir)
    ELSE Outcome(0, "",
            [s.ir EXCEPT !.loop.accumulator = add_line.n,
                         !.loop.accumulator_init = s.bindings[acc_binding].value,
                         !.loop.counter = s.loop_var,
                         !.loop.counter_init = s.bindings[counter_binding].value,
                         !.kind = PROGRAM_LOOP_SUM])

parse_loop_sum_program(lines, p, ovf) ==
    LET s == parse_loop_scan(lines, 1, LoopScan(0, "", <<>>, 0, "", p), ovf) IN
    IF s.rc # 0 THEN Outcome(1, s.err, s.ir)
    ELSE IF s.loop_start = 0 THEN Outcome(1, "expected while-loop", s.ir)
    ELSE IF s.loop_start + 2 >= Len(lines) THEN Outcome(1, "loop body too short", s.ir)
    ELSE
    LET add_line == lines[s.loop_start + 1]
        sub_line == lines[s.loop_start + 2]
    IN
    IF ~MatchesAdd(add_line) THEN Outcome(1, "expected accumulator assignment", s.ir)
    ELSE IF ~MatchesSub(sub_line) THEN Outcome(1, "expected counter decrement", s.ir)
    ELSE IF add_line.n # add_line.x
    THEN Outcome(1, "accumulator update must add into same variable", s.ir)
    ELSE IF add_line.y # s.loop_var
    THEN Outcome(1, "accumulator must add loop counter", s.ir)
    ELSE IF sub_line.n # s.loop_var \/ sub_line.x # s.loop_var
    THEN Outcome(1, "counter decrement must target loop counter", s.ir)
    ELSE IF sub_line.y # "1"
    THEN Outcome(1, "counter decrement must subtract 1", s.ir)
    ELSE
    LET acc_binding == find_binding(s.bindings, add_line.n)
        counter_binding == find_binding(s.bindings, s.loop_var)
    IN
    IF acc_binding = 0 \/ counter_binding = 0
    THEN Outcome(1, "accumulator/counter must be defined via let", s.ir)
    ELSE Outcome(0, "",
            [s.ir EXCEPT !.loop.accumulator = add_line.n,
                         !.loop.accumulator_init = s.bindings[acc_binding].value,
                         !.loop.counter = s.loop_var,
                         !.loop.counter_init = s.bindings[counter_binding].value,
                         !.kind = PROGRAM_LOOP_SUM])

(***************************************************************************)
(* Pi recognizer.  Scan state: bindings, have_mul, have_div and the IR.    *)
(***************************************************************************)
PiScan(rc, e, bindings, have_mul, have_div, p) ==
    [rc |-> rc, err |-> e, bindings |-> bindings, have_mul |-> have_mul,
     have_div |-> have_div, ir |-> p]

parse_pi_line_last_wins(s, l) ==
    IF StartsWithLet(l) /\ HasIntDecl(l) /\ (l.k = "letint" => l.x # "")
    THEN \* sscanf "let %127[^:]: int = %255[^;];" stored a name and an expression
         IF l.k = "letmul"
         THEN IF l.x = "" \/ l.y = ""
              THEN [s EXCEPT !.rc = 1, !.err = "malformed multiplication expression"]
              ELSE [s EXCEPT !.ir.pi.temp_var = l.n, !.ir.pi.temp_lhs = l.x,
                             !.ir.pi.temp_rhs = l.y, !.have_mul = 1]
         ELSE IF l.k = "letdiv"
         THEN IF l.x = "" \/ l.y = ""
              THEN [s EXCEPT !.rc = 1, !.err = "malformed division expression"]
              ELSE [s EXCEPT !.ir.pi.result_var = l.n, !.ir.pi.result_lhs = l.x,
                             !.ir.pi.result_rhs = l.y, !.have_div = 1]
         ELSE IF ~IsNumeral(l.x)
         THEN [s EXCEPT !.rc = 1, !.err = "unsupported initializer"]
         ELSE IF Len(s.bindings) >= MAX_INT_BINDINGS
         THEN [s EXCEPT !.rc = 1, !.err = "too many integer bindings"]
         ELSE \* bindings[binding_count].value = (int)value
              [s EXCEPT !.bindings =
                   Append(@, [name |-> l.n, value |-> ToInt(strtoll(l.x))])]
    ELSE IF l.k = "exit"
    THEN IF l.x = "" THEN [s EXCEPT !.rc = 1, !.err = "malformed exit statement"]
         ELSE [s EXCEPT !.ir.pi.exit_var = l.x]
    ELSE IF l.k = "return"
    THEN IF l.x = "" THEN [s EXCEPT !.rc = 1, !.err = "malformed return statement"]
         ELSE [s EXCEPT !.ir.pi.return_var = l.x]
    ELSE s

\* one iteration of the for loop of parse_pi_program
parse_pi_line(s, l) ==
    IF StartsWithLet(l) /\ HasIntDecl(l) /\ (l.k = "letint" => l.x # "")
    THEN \* sscanf "let %127[^:]: int = %255[^;];" stored a name and an expression
         IF l.k = "letmul"
         THEN IF s.have_mul = 1
              THEN [s EXCEPT !.rc = 1, !.err = "multiple multiplication statements"]
              ELSE IF l.x = "" \/ l.y = ""
              THEN [s EXCEPT !.rc = 1, !.err = "malformed multiplication expression"]
              ELSE [s EXCEPT !.ir.pi.temp_var = l.n, !.ir.pi.temp_lhs = l.x,
                             !.ir.pi.temp_rhs = l.y, !.have_mul = 1]
         ELSE IF l.k = "letdiv"
         THEN IF s.have_div = 1
              THEN [s EXCEPT !.rc = 1, !.err = "multiple division statements"]
              ELSE IF l.x = "" \/ l.y = ""
              THEN [s EXCEPT !.rc = 1, !.err = "malformed division expression"]
              ELSE [s EXCEPT !.ir.pi.result_var = l.n, !.ir.pi.result_lhs = l.x,
                             !.ir.pi.result_rhs = l.y, !.have_div = 1]
         ELSE IF ~IsNumeral(l.x)
         THEN [s EXCEPT !.rc = 1, !.err = "unsupported initializer"]
         ELSE IF Len(s.bindings) >= MAX_INT_BINDINGS
         THEN [s EXCEPT !.rc = 1, !.err = "too many integer bindings"]
         ELSE \* bindings[binding_count].value = (int)value
              [s EXCEPT !.bindings =
                   Append(@, [name |-> l.n, value |-> ToInt(strtoll(l.x))])]
    ELSE IF l.k = "exit"
    THEN IF l.x = "" THEN [s EXCEPT !.rc = 1, !.err = "malformed exit statement"]
         ELSE [s EXCEPT !.ir.pi.exit_var = l.x]
    ELSE IF l.k = "return"
    THEN IF l.x = "" THEN [s EXCEPT !.rc = 1, !.err = "malformed return statement"]
         ELSE [s EXCEPT !.ir.pi.return_var = l.x]
    ELSE s

RECURSIVE parse_pi_scan(_, _, _)
parse_pi_scan(lines, i, s) ==
    IF i > Len(lines) THEN s
    ELSE \* t: the scan state after line i, computed once
         CHOOSE r \in {IF t.rc # 0 THEN t ELSE parse_pi_scan(lines, i + 1, t) :
                          t \in {parse_pi_line(s, lines[i])}} : TRUE

parse_pi_program(lines, p) ==
    LET s == parse_pi_scan(lines, 1, PiScan(0, "", <<>>, 0, 0, [p EXCEPT !.pi = pi_ir0]))
        q == s.ir.pi
    IN
    IF s.rc # 0 THEN Outcome(1, s.err, s.ir)
    ELSE IF s.have_mul = 0 \/ s.have_div = 0
    THEN Outcome(1, "requires multiplication and division statements", s.ir)
    ELSE IF q.exit_var = "" \/ q.return_var = ""
    THEN Outcome(1, "must include exit and return statements", s.ir)
    ELSE IF q.exit_var # q.return_var
    THEN Outcome(1, "exit and return targets must match", s.ir)
    ELSE IF q.result_var # q.exit_var
    THEN Outcome(1, "exit must target the pi result variable", s.ir)
    ELSE IF q.result_lhs # q.temp_var
    THEN Outcome(1, "pi result must divide the multiplication temporary", s.ir)
    ELSE
    LET mul_lhs == find_binding(s.bindings, q.temp_lhs)
        mul_rhs == find_binding(s.bindings, q.temp_rhs)
        den_binding == find_binding(s.bindings, q.result_rhs)
    IN
    IF mul_lhs = 0 \/ mul_rhs = 0 \/ den_binding = 0
    THEN Outcome(1, "references undefined integer bindings", s.ir)
    ELSE Outcome(0, "",
            [s.ir EXCEPT !.pi.numerator_var = s.bindings[mul_lhs].name,
                         !.pi.numerator_value = s.bindings[mul_lhs].value,
                         !.pi.scale_var = s.bindings[mul_rhs].name,
                         !.pi.scale_value = s.bindings[mul_rhs].value,
                         !.pi.denominator_var = s.bindings[den_binding].name,
                         !.pi.denominator_value = s.bindings[den_binding].value,
                         !.kind = PROGRAM_PI_TEST])

(***************************************************************************)
(* Shape classifier                                                        *)
(***************************************************************************)
\* an arithmetic chain found in the statements only, not in the line text
has_arithmetic_statement(lines) ==
    \E i \in 1..Len(lines) : lines[i].k \in {"letmul", "letdiv"}

has_string_binding(lines) == \E i \in 1..Len(lines) : HasStringDecl(lines[i])
has_loop(lines) == \E i \in 1..Len(lines) : StartsWithWhile(lines[i])
has_arithmetic_chain(lines) == \E i \in 1..Len(lines) : HasMulOrDiv(lines[i])

select_recognizer_arith_first(lines) ==
    IF has_arithmetic_chain(lines) THEN <<"pi">>
    ELSE IF has_loop(lines) THEN <<"loop">>
    ELSE IF has_string_binding(lines) THEN <<"string">>
    ELSE <<>>

\* the recognizers parse_source calls for these lines, in call order
select_recognizer(lines) ==
    IF has_loop(lines) THEN <<"loop">>
    ELSE IF has_arithmetic_chain(lines) THEN <<"pi">>
    ELSE IF has_string_binding(lines) THEN <<"string">>
    ELSE <<>>

run_recognizer(name, lines, p, ovf) ==
    CASE name = "loop" -> parse_loop_sum_program(lines, p, ovf)
      [] name = "pi" -> parse_pi_program(lines, p)
      [] name = "string" -> parse_string_program(lines, p, ovf)

\* parse_source, after the lines are read
parse_source(lines, p, ovf) ==
    LET sel == select_recognizer(lines) IN
    IF sel = <<>> THEN Outcome(1, "unsupported program shape", p)
    ELSE run_recognizer(sel[1], lines, p, ovf)

(***************************************************************************)
(* IR validator                                                            *)
(***************************************************************************)
validate_string(p) ==
    IF string_binding_count(p) = 0
    THEN Outcome(1, "expected at least one string binding", p)
    ELSE IF p.have_print = 0 THEN Outcome(1, "expected print service call", p)
    ELSE IF p.have_exit = 0 \/ p.have_return = 0
    THEN Outcome(1, "expected exit + return statements", p)
    ELSE
    LET idx0 == p.print_binding_index
        stale == idx0 < 0 \/ idx0 >= string_binding_count(p)
        idx == IF stale THEN find_string_binding_index(p, p.print_arg) ELSE idx0
    IN
    IF stale /\ idx < 0
    THEN Outcome(1, "print argument must reference a string binding", p)
    ELSE
    LET q == [p EXCEPT !.print_binding_index = idx] IN
    IF q.print_arg # q.bindings[idx + 1].name
    THEN Outcome(1, "print argument must match resolved binding name", q)
    ELSE IF q.exit_value # q.return_value
    THEN Outcome(1, "exit and return values must match", q)
    ELSE IF q.exit_value # 0 THEN Outcome(1, "only exit code 0 supported", q)
    ELSE Outcome(0, "", q)

validate_loop_exit_only(p) ==
    IF p.loop.accumulator = "" \/ p.loop.counter = ""
    THEN Outcome(1, "loop lowering missing accumulator/counter", p)
    ELSE IF p.loop.exit_var # p.loop.accumulator
    THEN Outcome(1, "exit/return must target accumulator", p)
    ELSE Outcome(0, "", p)

validate_loop(p) ==
    IF p.loop.accumulator = "" \/ p.loop.counter = ""
    THEN Outcome(1, "loop lowering missing accumulator/counter", p)
    ELSE IF p.loop.exit_var # p.loop.accumulator \/ p.loop.return_var # p.loop.accumulator
    THEN Outcome(1, "exit/return must target accumulator", p)
    ELSE Outcome(0, "", p)

validate_pi_any_denominator(p) ==
    IF p.pi.numerator_var = "" \/ p.pi.denominator_var = "" \/ p.pi.scale_var = ""
    THEN Outcome(1, "pi program missing required bindings", p)
    ELSE IF p.pi.result_var # p.pi.exit_var \/ p.pi.return_var # p.pi.result_var
    THEN Outcome(1, "pi program exit/return must target division result", p)
    ELSE Outcome(0, "", p)

validate_pi(p) ==
    IF p.pi.numerator_var = "" \/ p.pi.denominator_var = "" \/ p.pi.scale_var = ""
    THEN Outcome(1, "pi program missing required bindings", p)
    ELSE IF p.pi.denominator_value = 0
    THEN Outcome(1, "pi program denominator must be non-zero", p)
    ELSE IF p.pi.result_var # p.pi.exit_var \/ p.pi.return_var # p.pi.result_var
    THEN Outcome(1, "pi program exit/return must target division result", p)
    ELSE Outcome(0, "", p)

validate_program(p) ==
    CASE p.kind = PROGRAM_STRING -> validate_string(p)
      [] p.kind = PROGRAM_LOOP_SUM -> validate_loop(p)
      [] p.kind = PROGRAM_PI_TEST -> validate_pi(p)
      [] OTHER -> Outcome(1, "unrecognised program kind", p)

\* load_program_ir: parse_source, then validate_program when it returned 0
load_program_ir(lines, ovf) ==
    LET o == parse_source(lines, program_ir0, ovf) IN
    IF o.rc # 0 THEN Outcome(1, o.err, o.ir) ELSE validate_program(o.ir)

(***************************************************************************)
(* Instruction words.  A 64-bit word is its eight bytes, most significant  *)
(* first; a 32-bit immediate is its four bytes.                            *)
(***************************************************************************)
\* (uint32_t)value of an int: two's complement, as four bytes
ToU32(v) ==
    LET hi == v \div 16777216
        lo == v % 16777216
    IN <<hi % 256, lo \div 65536, (lo \div 256) % 256, lo % 256>>

\* the int a 32-bit field holds
FromU32(b) ==
    LET lo == b[2] * 65536 + b[3] * 256 + b[4] IN
    IF b[1] >= 128 THEN (b[1] - 256) * 16777216 + lo ELSE b[1] * 16777216 + lo

\* x | y on bytes
OrByte(x, y) ==
    LET bit(v, w) == (v \div w) % 2
        or(w) == IF bit(x, w) + bit(y, w) > 0 THEN w ELSE 0
    IN or(1) + or(2) + or(4) + or(8) + or(16) + or(32) + or(64) + or(128)

\* word |= (uint64_t)byte << shift, for a shift that is a multiple of 8
OrShifted(word, byte, shift) ==
    [word EXCEPT ![8 - shift \div 8] = OrByte(@, byte % 256)]

\* word |= wide, for a 64-bit value given as its eight bytes
Or64(word, wide) ==
    <<OrByte(word[1], wide[1]), OrByte(word[2], wide[2]), OrByte(word[3], wide[3]),
      OrByte(word[4], wide[4]), OrByte(word[5], wide[5]), OrByte(word[6], wide[6]),
      OrByte(word[7], wide[7]), OrByte(word[8], wide[8])>>

\* (uint64_t)imm32 of a uint32_t: the upper half is zero
ZeroExtend(imm32) == <<0, 0, 0, 0>> \o imm32

\* (uint64_t)(int32_t)imm32: the upper half repeats the sign bit
SignExtend(imm32) ==
    (IF imm32[1] >= 128 THEN <<255, 255, 255, 255>> ELSE <<0, 0, 0, 0>>) \o imm32

pack_instruction_word_sign_extended(opcode, op0, op1, op2, imm32) ==
    Or64(OrShifted(OrShifted(OrShifted(OrShifted(<<0, 0, 0, 0, 0, 0, 0, 0>>,
                                                 opcode, 56), op0, 48), op1, 40), op2, 32),
         SignExtend(imm32))

pack_instruction_word(opcode, op0, op1, op2, imm32) ==
    Or64(OrShifted(OrShifted(OrShifted(OrShifted(<<0, 0, 0, 0, 0, 0, 0, 0>>,
                                                 opcode, 56), op0, 48), op1, 40), op2, 32),
         ZeroExtend(imm32))

ensure_signed_32_range(value) == IF value < INT32_MIN \/ value > INT32_MAX THEN 1 ELSE 0

encode_mov_immediate(dest, value) ==
    pack_instruction_word(ISA_OPCODE_MOV, dest, ISA_OPERAND_IMMEDIATE, ISA_OPERAND_UNUSED,
                          ToU32(value))

encode_mov_register(dest, source) ==
    pack_instruction_word(ISA_OPCODE_MOV, dest, source, ISA_OPERAND_UNUSED, ToU32(0))

encode_mov_label(dest) ==
    pack_instruction_word(ISA_OPCODE_MOV, dest, ISA_OPERAND_LABEL, ISA_OPERAND_UNUSED, ToU32(0))

encode_arith_reg_reg_swapped(opcode, dest, lhs, rhs) ==
    pack_instruction_word(opcode, dest, rhs, lhs, ToU32(0))

encode_arith_reg_reg(opcode, dest, lhs, rhs) ==
    pack_instruction_word(opcode, dest, lhs, rhs, ToU32(0))

encode_arith_reg_imm(opcode, dest, lhs, imm) ==
    pack_instruction_word(opcode, dest, lhs, ISA_OPERAND_IMMEDIATE, ToU32(imm))

encode_cmp_reg_imm(lhs, imm) ==
    pack_instruction_word(ISA_OPCODE_CMP, lhs, ISA_OPERAND_IMMEDIATE, ISA_OPERAND_UNUSED,
                          ToU32(imm))

encode_cjmp(cond) ==
    pack_instruction_word(ISA_OPCODE_CJMP, cond, ISA_OPERAND_LABEL, ISA_OPERAND_UNUSED, ToU32(0))

encode_jmp ==
    pack_instruction_word(ISA_OPCODE_JMP, ISA_OPERAND_LABEL, ISA_OPERAND_UNUSED,
                          ISA_OPERAND_UNUSED, ToU32(0))

(***************************************************************************)
(* Manifest text.  A line is its directive keyword kw, the characters arg  *)
(* that follow the keyword, and sym: the name a label line declares or the *)
(* name the comment of a bytes line refers to (documentation only).        *)
(*   kw = "#": a comment line;  kw = "": an empty line.                    *)
(***************************************************************************)
ML(kw, arg, sym) == [kw |-> kw, arg |-> arg, sym |-> sym]

HexDigits == <<"0", "1", "2", "3", "4", "5", "6", "7", "8", "9", "A", "B", "C", "D", "E", "F">>

\* %02X of one byte
HexByte(b) == <<HexDigits[(b \div 16) + 1], HexDigits[(b % 16) + 1]>>

\* %016llX of a word
Hex16(w) ==
    HexByte(w[1]) \o HexByte(w[2]) \o HexByte(w[3]) \o HexByte(w[4]) \o
    HexByte(w[5]) \o HexByte(w[6]) \o HexByte(w[7]) \o HexByte(w[8])

\* fprintf(out, "bytes 0x%016llX  ; %s\n", word, comment)
emit_instruction_word(word, sym) ==
    ML("bytes", <<"0", "x">> \o Hex16(word) \o <<" ", " ", ";">>, sym)

RECURSIVE escape_ascii(_)
escape_ascii(literal) ==
    IF literal = <<>> THEN <<>>
    ELSE (IF Head(literal) = "\"" THEN <<"\\", "\"">> ELSE <<Head(literal)>>)
         \o escape_ascii(Tail(literal))

\* the line write_escape_ascii writes
write_escape_ascii(literal) == ML("ascii", <<"\"">> \o escape_ascii(literal) \o <<"\"">>, "")

emit_runtime_print_and_exit ==
    << ML("label", <<>>, "__aur_runtime_print_and_exit"),
       ML("bytes", <<"0", "x", "0", "B", "0", "1", "0", "1", "0", "0", "0", "0", "0", "0",
                     "0", "0", "0", "0", " ", " ", ";">>, ""),
       ML("bytes", <<"0", "x", "0", "B", "0", "2", "0", "0", "0", "0", "0", "0", "0", "0",
                     "0", "0", "0", "0", " ", " ", ";">>, ""),
       ML("halt", <<>>, ""),
       ML("", <<>>, "") >>

emit_runtime_exit_with_r0 ==
    << ML("label", <<>>, "__aur_runtime_exit_with_r0"),
       ML("bytes", <<"0", "x", "0", "B", "0", "2", "0", "0", "0", "0", "0", "0", "0", "0",
                     "0", "0", "0", "0", " ", " ", ";">>, ""),
       ML("halt", <<>>, ""),
       ML("", <<>>, "") >>

\* flags & bit, for a one-bit mask
HasFlag(flags, bit) == (flags \div bit) % 2 = 1

\* flags | bit
SetFlag(flags, bit) == IF HasFlag(flags, bit) THEN flags ELSE flags + bit

emit_runtime_section_all(flags) ==
    emit_runtime_print_and_exit \o emit_runtime_exit_with_r0

emit_runtime_section(flags) ==
    (IF HasFlag(flags, RUNTIME_PRINT_AND_EXIT) THEN emit_runtime_print_and_exit ELSE <<>>)
    \o (IF HasFlag(flags, RUNTIME_EXIT_WITH_R0) THEN emit_runtime_exit_with_r0 ELSE <<>>)

\* what an emit_*_manifest call did: return code, lines written, runtime flags
Emitted(rc, out, flags) == [rc |-> rc, out |-> out, flags |-> flags]

ManifestHeader ==
    << ML("#", <<>>, ""), ML("header", <<>>, "minimal_isa"),
       ML("org", <<"0", "x", "0", "0", "0", "0">>, ""), ML("label", <<>>, "main") >>

RECURSIVE string_data_blocks(_, _)
string_data_blocks(bindings, i) ==
    IF i > Len(bindings) THEN <<>>
    ELSE << ML("label", <<>>, bindings[i].name),
            write_escape_ascii(bindings[i].literal),
            ML("pad", <<"0", "x", "0", "0", "1", "0">>, "") >>
         \o string_data_blocks(bindings, i + 1)

emit_string_manifest(p, flags) ==
    IF p.print_binding_index < 0 \/ p.print_binding_index >= string_binding_count(p)
    THEN Emitted(1, <<>>, flags)
    ELSE
    LET print_binding == p.bindings[p.print_binding_index + 1] IN
    Emitted(0,
        ManifestHeader
        \o << emit_instruction_word(encode_mov_label(ISA_REG_R1), print_binding.name),
              emit_instruction_word(encode_mov_immediate(ISA_REG_R0, 0), ""),
              ML("", <<>>, "") >>
        \o string_data_blocks(p.bindings, 1),
        SetFlag(flags, RUNTIME_PRINT_AND_EXIT))

emit_loop_manifest(p, flags) ==
    IF ensure_signed_32_range(p.loop.accumulator_init) # 0 THEN Emitted(1, ManifestHeader, flags)
    ELSE IF ensure_signed_32_range(p.loop.counter_init) # 0
    THEN Emitted(1, ManifestHeader, flags)
    ELSE
    Emitted(0,
        ManifestHeader
        \o << emit_instruction_word(encode_mov_immediate(ISA_REG_R1, p.loop.accumulator_init), ""),
              emit_instruction_word(encode_mov_immediate(ISA_REG_R2, p.loop.counter_init), ""),
              ML("label", <<>>, "loop"),
              emit_instruction_word(
                  encode_arith_reg_reg(ISA_OPCODE_ADD, ISA_REG_R1, ISA_REG_R1, ISA_REG_R2), ""),
              emit_instruction_word(
                  encode_arith_reg_imm(ISA_OPCODE_SUB, ISA_REG_R2, ISA_REG_R2, 1), ""),
              emit_instruction_word(encode_cmp_reg_imm(ISA_REG_R2, 0), ""),
              emit_instruction_word(encode_cjmp(ISA_COND_EQ), "exit"),
              emit_instruction_word(encode_jmp, "loop"),
              ML("label", <<>>, "exit"),
              emit_instruction_word(encode_mov_register(ISA_REG_R0, ISA_REG_R1), "") >>,
        SetFlag(flags, RUNTIME_EXIT_WITH_R0))

emit_pi_manifest(p, flags) ==
    IF ensure_signed_32_range(p.pi.numerator_value) # 0 THEN Emitted(1, ManifestHeader, flags)
    ELSE IF ensure_signed_32_range(p.pi.denominator_value) # 0
    THEN Emitted(1, ManifestHeader, flags)
    ELSE IF ensure_signed_32_range(p.pi.scale_value) # 0 THEN Emitted(1, ManifestHeader, flags)
    ELSE
    Emitted(0,
        ManifestHeader
        \o << emit_instruction_word(encode_mov_immediate(ISA_REG_R1, p.pi.numerator_value), ""),
              emit_instruction_word(encode_mov_immediate(ISA_REG_R2, p.pi.denominator_value), ""),
              emit_instruction_word(encode_mov_immediate(ISA_REG_R3, p.pi.scale_value), ""),
              emit_instruction_word(
                  encode_arith_reg_reg(ISA_OPCODE_MUL, ISA_REG_R4, ISA_REG_R1, ISA_REG_R3), ""),
              emit_instruction_word(
                  encode_arith_reg_reg(ISA_OPCODE_REM, ISA_REG_R6, ISA_REG_R4, ISA_REG_R2), ""),
              emit_instruction_word(
                  encode_arith_reg_reg(ISA_OPCODE_DIV, ISA_REG_R5, ISA_REG_R4, ISA_REG_R2), ""),
              emit_instruction_word(encode_mov_register(ISA_REG_R0, ISA_REG_R5), "") >>,
        SetFlag(flags, RUNTIME_EXIT_WITH_R0))

\* emit_manifest with the number of the run written into the first line
emit_manifest_stamped(p) ==
    LET e == CASE p.kind = PROGRAM_STRING -> emit_string_manifest(p, RUNTIME_NONE)
               [] p.kind = PROGRAM_LOOP_SUM -> emit_loop_manifest(p, RUNTIME_NONE)
               [] p.kind = PROGRAM_PI_TEST -> emit_pi_manifest(p, RUNTIME_NONE)
               [] OTHER -> Emitted(1, <<>>, RUNTIME_NONE)
    IN
    [rc |-> e.rc,
     out |-> IF e.rc = 0 /\ e.flags # RUNTIME_NONE
             THEN <<ML("#", <<>>, ToString(mopen))>> \o Tail(e.out)
                  \o <<ML("", <<>>, "")>> \o emit_runtime_section(e.flags)
             ELSE e.out]

\* emit_manifest once the output is open: return code and the lines of the file
emit_manifest(p) ==
    LET e == CASE p.kind = PROGRAM_STRING -> emit_string_manifest(p, RUNTIME_NONE)
               [] p.kind = PROGRAM_LOOP_SUM -> emit_loop_manifest(p, RUNTIME_NONE)
               [] p.kind = PROGRAM_PI_TEST -> emit_pi_manifest(p, RUNTIME_NONE)
               [] OTHER -> Emitted(1, <<>>, RUNTIME_NONE)
    IN
    [rc |-> e.rc,
     out |-> IF e.rc = 0 /\ e.flags # RUNTIME_NONE
             THEN e.out \o <<ML("", <<>>, "")>> \o emit_runtime_section(e.flags)
             ELSE e.out]

(***************************************************************************)
(* Manifest assembler.  Output bytes are numbers 0..255.                   *)
(***************************************************************************)
\* isspace
IsSpace(c) == c \in {" ", "\t", "\n", "\r"}

\* hex_value: 0..15, or -1
hex_value(c) ==
    CASE c = "0" -> 0 [] c = "1" -> 1 [] c = "2" -> 2 [] c = "3" -> 3 [] c = "4" -> 4
      [] c = "5" -> 5 [] c = "6" -> 6 [] c = "7" -> 7 [] c = "8" -> 8 [] c = "9" -> 9
      [] c \in {"a", "A"} -> 10 [] c \in {"b", "B"} -> 11 [] c \in {"c", "C"} -> 12
      [] c \in {"d", "D"} -> 13 [] c \in {"e", "E"} -> 14 [] c \in {"f", "F"} -> 15
      [] OTHER -> -1

\* (unsigned char)c for the characters the model writes
CharCode(c) ==
    CASE c = "h" -> 104 [] c = "i" -> 105 [] c = "n" -> 110 [] c = "q" -> 113
      [] c = "\\" -> 92 [] c = "*" -> 42 [] c = "\"" -> 34 [] c = " " -> 32
      [] c = ";" -> 59 [] c = "0" -> 48 [] c = "x" -> 120 [] c = "_" -> 95
      [] OTHER -> 63

\* what a call wrote to the output, and its return code
Wrote(rc, out) == [rc |-> rc, out |-> out]

RECURSIVE hex_bytes_low_nibble_first(_, _, _, _)
hex_bytes_low_nibble_first(hex, i, high, out) ==
    IF i > Len(hex) \/ hex[i] = ";" \/ IsSpace(hex[i])
    THEN IF high >= 0 THEN Wrote(1, out)
         ELSE IF Len(out) = 0 THEN Wrote(1, out)
         ELSE Wrote(0, out)
    ELSE IF hex[i] = "_" THEN hex_bytes_low_nibble_first(hex, i + 1, high, out)
    ELSE LET v == hex_value(hex[i]) IN
         IF v < 0 THEN Wrote(1, out)
         ELSE IF high < 0 THEN hex_bytes_low_nibble_first(hex, i + 1, v, out)
         ELSE hex_bytes_low_nibble_first(hex, i + 1, -1, Append(out, v * 16 + high))

RECURSIVE hex_bytes_from(_, _, _, _)
hex_bytes_from(hex, i, high, out) ==
    IF i > Len(hex) \/ hex[i] = ";" \/ IsSpace(hex[i])
    THEN IF high >= 0 THEN Wrote(1, out)
         ELSE IF Len(out) = 0 THEN Wrote(1, out)
         ELSE Wrote(0, out)
    ELSE IF hex[i] = "_" THEN hex_bytes_from(hex, i + 1, high, out)
    ELSE LET v == hex_value(hex[i]) IN
         IF v < 0 THEN Wrote(1, out)
         ELSE IF high < 0 THEN hex_bytes_from(hex, i + 1, v, out)
         ELSE hex_bytes_from(hex, i + 1, -1, Append(out, high * 16 + v))

emit_hex_bytes_low_nibble_first(hex) == hex_bytes_low_nibble_first(hex, 1, -1, <<>>)

emit_hex_bytes(hex) == hex_bytes_from(hex, 1, -1, <<>>)

\* index of the first occurrence of c in s from position i on, 0 when none
RECURSIVE IndexFrom(_, _, _)
IndexFrom(s, c, i) ==
    IF i > Len(s) THEN 0 ELSE IF s[i] = c THEN i ELSE IndexFrom(s, c, i + 1)

RECURSIVE ascii_bytes_from(_, _, _)
ascii_bytes_from(s, i, out) ==
    IF i > Len(s) THEN Wrote(1, out)             \* missing closing quote
    ELSE IF s[i] = "\"" THEN Wrote(0, out)
    ELSE IF s[i] = "\\"
    THEN IF i + 1 > Len(s) THEN Wrote(1, out)    \* incomplete escape sequence
         ELSE LET e == s[i + 1] IN
              IF e = "\\" THEN ascii_bytes_from(s, i + 2, Append(out, 92))
              ELSE IF e = "\"" THEN ascii_bytes_from(s, i + 2, Append(out, 34))
              ELSE IF e = "n" THEN ascii_bytes_from(s, i + 2, Append(out, 10))
              ELSE IF e = "r" THEN ascii_bytes_from(s, i + 2, Append(out, 13))
              ELSE IF e = "t" THEN ascii_bytes_from(s, i + 2, Append(out, 9))
              ELSE IF e = "0" THEN ascii_bytes_from(s, i + 2, Append(out, 0))
              ELSE Wrote(1, out)                 \* unsupported escape sequence
    ELSE ascii_bytes_from(s, i + 1, Append(out, CharCode(s[i])))

emit_ascii_bytes(line) ==
    LET start == IndexFrom(line, "\"", 1) IN
    IF start = 0 THEN Wrote(1, <<>>) ELSE ascii_bytes_from(line, start + 1, <<>>)

\* strtoul(value, &endptr, 0) on digits: the number and how many characters it used
RECURSIVE DigitsFrom(_, _, _, _, _)
DigitsFrom(s, i, base, acc, used) ==
    IF i > Len(s) \/ hex_value(s[i]) < 0 \/ hex_value(s[i]) >= base
    THEN [n |-> acc, used |-> used]
    ELSE DigitsFrom(s, i + 1, base, acc * base + hex_value(s[i]), used + 1)

strtoul0(s) ==
    IF Len(s) >= 3 /\ s[1] = "0" /\ s[2] \in {"x", "X"} /\ hex_value(s[3]) >= 0
    THEN LET d == DigitsFrom(s, 3, 16, 0, 0) IN [n |-> d.n, used |-> d.used + 2]
    ELSE IF Len(s) >= 1 /\ s[1] = "0" THEN DigitsFrom(s, 1, 8, 0, 0)
    ELSE DigitsFrom(s, 1, 10, 0, 0)

RECURSIVE SkipSpaces(_)
SkipSpaces(s) == IF s # <<>> /\ IsSpace(Head(s)) THEN SkipSpaces(Tail(s)) ELSE s

Zeros(n) == [i \in 1..n |-> 0]

\* emit_pad on the text after the keyword
emit_pad(arg) ==
    LET value == SkipSpaces(arg) IN
    IF value = <<>> THEN Wrote(1, <<>>)
    ELSE LET c == strtoul0(value) IN
         IF c.used = 0 THEN Wrote(1, <<>>) ELSE Wrote(0, Zeros(c.n))

\* position of the first "0x" of the text, 0 when none
RECURSIVE Find0x(_, _)
Find0x(s, i) ==
    IF i + 1 > Len(s) THEN 0
    ELSE IF s[i] = "0" /\ s[i + 1] = "x" THEN i ELSE Find0x(s, i + 1)

\* strncmp(line, directive, strlen(directive)) == 0, for the keywords of the
\* model: the comparison looks at the first characters of the line only
StartsWith(kw, directive) ==
    \/ kw = directive
    \/ <<kw, directive>> \in {<<"halted", "halt">>, <<"padding", "pad">>}

\* the characters of the keyword that follow the directive it starts with
AfterDirective(kw) ==
    CASE kw = "halted" -> <<"e", "d">>
      [] kw = "padding" -> <<"d", "i", "n", "g">>
      [] OTHER -> <<>>

\* what one manifest line appends to the output, and whether it fails
assemble_line(l) ==
    IF l.kw = "" \/ l.kw = "#" THEN Wrote(0, <<>>)
    ELSE IF StartsWith(l.kw, "bytes")
    THEN LET at == Find0x(l.arg, 1) IN
         IF at = 0 THEN Wrote(1, <<>>)
         ELSE emit_hex_bytes(SubSeq(l.arg, at + 2, Len(l.arg)))
    ELSE IF StartsWith(l.kw, "ascii") THEN emit_ascii_bytes(l.arg)
    ELSE IF StartsWith(l.kw, "pad") THEN emit_pad(AfterDirective(l.kw) \o l.arg)
    ELSE IF StartsWith(l.kw, "halt") THEN Wrote(0, <<ISA_OPCODE_HALT, 0, 0, 0, 0, 0, 0, 0>>)
    ELSE Wrote(0, <<>>)

\* the while loop of aurc_assemble_manifest: the bytes in the output file when
\* the loop ends, and rc
RECURSIVE assemble_from(_, _, _)
assemble_from(lines, i, out) ==
    IF i > Len(lines) THEN Wrote(0, out)
    ELSE LET w == assemble_line(lines[i]) IN
         IF w.rc # 0 THEN Wrote(1, out \o w.out)
         ELSE assemble_from(lines, i + 1, out \o w.out)

aurc_assemble_manifest(lines) == assemble_from(lines, 1, <<>>)

(***************************************************************************)
(* Evaluation of the instruction words of a manifest, one word per step.  *)
(* The meaning of each word is the one its comment in the emitted         *)
(* template gives (add: accumulator += counter; cjmp eq: if zero -> exit;  *)
(* jmp: loop back; div: temp / denominator; svc 0x02: exit(r0)); jump      *)
(* targets are the labels those comments name.  Registers hold integers.  *)
(***************************************************************************)
Registers == ISA_REG_R0 .. ISA_REG_R7

cpu0 == [state |-> "off", at |-> 0, r |-> [i \in Registers |-> 0], cmp |-> 0, steps |-> 0]

\* C integer division and remainder: the quotient truncates toward zero
Abs(a) == IF a < 0 THEN -a ELSE a
TruncDiv(a, b) == IF (a < 0) = (b < 0) THEN Abs(a) \div Abs(b) ELSE -(Abs(a) \div Abs(b))
TruncRem(a, b) == a - b * TruncDiv(a, b)

\* index of the first instruction line at or after position i (Len + 1 when none)
RECURSIVE NextWord(_, _)
NextWord(m, i) ==
    IF i > Len(m) THEN i
    ELSE IF m[i].kw \in {"bytes", "halt"} THEN i ELSE NextWord(m, i + 1)

\* index of the label line declaring name, 0 when none
RECURSIVE LabelAt(_, _, _)
LabelAt(m, name, i) ==
    IF i > Len(m) THEN 0
    ELSE IF m[i].kw = "label" /\ m[i].sym = name THEN i ELSE LabelAt(m, name, i + 1)

\* the eight bytes a manifest line assembles to
WordOf(l) == assemble_line(l).out

Operand(c, code, imm) == IF code = ISA_OPERAND_IMMEDIATE THEN imm ELSE c.r[code]

\* the state after the word at position c.at
Execute(m, c) ==
    LET l == m[c.at]
        w == WordOf(l)
        imm == FromU32(SubSeq(w, 5, 8))
        next == [c EXCEPT !.at = NextWord(m, c.at + 1), !.steps = @ + 1]
        jump == [next EXCEPT !.at = NextWord(m, LabelAt(m, l.sym, 1))]
    IN
    IF Len(w) # 8 THEN [next EXCEPT !.state = "fault"]
    ELSE CASE w[1] = ISA_OPCODE_MOV ->
                [next EXCEPT !.r[w[2]] =
                    IF w[3] = ISA_OPERAND_LABEL THEN LabelAt(m, l.sym, 1)
                    ELSE Operand(c, w[3], imm)]
           [] w[1] = ISA_OPCODE_ADD ->
                [next EXCEPT !.r[w[2]] = c.r[w[3]] + Operand(c, w[4], imm)]
           [] w[1] = ISA_OPCODE_SUB ->
                [next EXCEPT !.r[w[2]] = c.r[w[3]] - Operand(c, w[4], imm)]
           [] w[1] = ISA_OPCODE_MUL ->
                [next EXCEPT !.r[w[2]] = c.r[w[3]] * Operand(c, w[4], imm)]
           [] w[1] = ISA_OPCODE_DIV ->
                IF Operand(c, w[4], imm) = 0 THEN [next EXCEPT !.state = "fault"]
                ELSE [next EXCEPT !.r[w[2]] = TruncDiv(c.r[w[3]], Operand(c, w[4], imm))]
           [] w[1] = ISA_OPCODE_REM ->
                IF Operand(c, w[4], imm) = 0 THEN [next EXCEPT !.state = "fault"]
                ELSE [next EXCEPT !.r[w[2]] = TruncRem(c.r[w[3]], Operand(c, w[4], imm))]
           [] w[1] = ISA_OPCODE_CMP ->
                [next EXCEPT !.cmp = c.r[w[2]] - Operand(c, w[3], imm)]
           [] w[1] = ISA_OPCODE_CJMP ->
                IF w[2] = ISA_COND_EQ /\ c.cmp = 0 THEN jump ELSE next
           [] w[1] = ISA_OPCODE_JMP -> jump
           [] w[1] = ISA_OPCODE_SVC ->
                IF w[2] = 2 THEN [next EXCEPT !.state = "exit"] ELSE next
           [] w[1] = ISA_OPCODE_HALT -> [next EXCEPT !.state = "halt"]
           [] OTHER -> [next EXCEPT !.state = "fault"]

(***************************************************************************)
(* Inputs: the source files and the hand-written manifests of the model    *)
(***************************************************************************)
SeqsUpTo(S, n) == UNION {[1..k -> S] : k \in 1..n}

LiteralAlphabet == {"h", "n", "\\", "*"}
Literals == SeqsUpTo(LiteralAlphabet, MaxLitLen)

Numeral(i) == ToString(i)

BindingName(i) == "s" \o ToString(i)

\* k declarations with distinct names, then the print, exit and return
ManyBindings(k) ==
    [i \in 1..k |-> LetStr(BindingName(i), <<"h">>)]
    \o <<PrintReq(BindingName(1)), ExitReq("0"), ReturnStmt("0")>>

StringPrograms ==
    \* from one declaration up to one more than the table holds
    { ManyBindings(k) : k \in 1..MaxBindings }
    \cup
    \* a repeated name when the table is nearly full and when it is full
    { <<LetStr(BindingName(1), <<"h">>)>> \o ManyBindings(k) :
        k \in {MAX_STRING_BINDINGS - 1, MAX_STRING_BINDINGS} }
    \cup
    { [i \in 1..k |-> LetStr(BindingName(i), <<"h">>)]
      \o <<LetStr(BindingName(k), <<"n">>), PrintReq(BindingName(1)), ExitReq("0"),
           ReturnStmt("0")>> :
        k \in {MAX_STRING_BINDINGS - 1, MAX_STRING_BINDINGS} }
    \cup
    \* one binding, every literal (the empty one included)
    { <<LetStr("greeting", lit), PrintReq("greeting"), ExitReq("0"), ReturnStmt("0")>> :
        lit \in Literals \cup {<<>>} }
    \cup
    \* a literal with a division sign; a literal with an operator next to a
    \* multiplication alone
    { <<LetStr("greeting", <<"h", "/">>), PrintReq("greeting"), ExitReq("0"), ReturnStmt("0")>>,
      <<LetStr("greeting", <<"*">>), LetInt("num", "2"), LetMul("tmp", "num", "num"),
        PrintReq("greeting"), ExitReq("0"), ReturnStmt("0")>>,
      \* a line of other text that holds the operator
      <<OtherLine(<<"/", "/">>), LetStr("greeting", <<"h">>), PrintReq("greeting"),
        ExitReq("0"), ReturnStmt("0")>> }
    \cup
    \* one binding, exit and return codes in and out of the int range
    { <<LetStr("greeting", <<"h">>), PrintReq("greeting"), ExitReq(e), ReturnStmt(e)>> :
        e \in {"-1", "4294967301", "4294967296"} }
    \cup
    \* two bindings, print before or after them, resolved or not, exit/return codes
    { IF first
      THEN <<PrintReq(a), LetStr(n1, <<"h">>), LetStr(n2, <<"h", "n">>), ExitReq(e), ReturnStmt(r)>>
      ELSE <<LetStr(n1, <<"h">>), LetStr(n2, <<"h", "n">>), PrintReq(a), ExitReq(e), ReturnStmt(r)>> :
        first \in BOOLEAN, n1 \in {"greeting", "other"}, n2 \in {"greeting", "other"},
        a \in {"greeting", "other", "missing"}, e \in {"0", "1"}, r \in {"0", "1"} }
    \cup
    \* statements missing, unparsable or repeated
    { <<LetStr("greeting", <<"h">>), ExitReq("0"), ReturnStmt("0")>>,
      <<LetStr("greeting", <<"h">>), PrintReq("greeting"), ReturnStmt("0")>>,
      <<LetStr("greeting", <<"h">>), PrintReq("greeting"), ExitReq("greeting"), ReturnStmt("0")>>,
      <<LetStr("greeting", <<"h">>), PrintReq(""), ExitReq("0"), ReturnStmt("0")>>,
      <<LetStr("greeting", <<"h">>), PrintReq("greeting"), PrintReq("missing"),
        ExitReq("0"), ReturnStmt("0")>>,
      <<LetStr("greeting", <<"h">>), LetInt("n", "1"), PrintReq("greeting"),
        ExitReq("0"), ReturnStmt("0")>>,
      \* a statement that does not parse next to the well-formed ones
      <<LetStr("greeting", <<"h">>), PrintReq("greeting"), ExitReq("greeting"),
        ExitReq("0"), ReturnStmt("0")>>,
      <<LetStr("greeting", <<"h">>), LetStr("other", <<>>), PrintReq("greeting"),
        ExitReq("0"), ReturnStmt("0")>>,
      <<LetStr("greeting", <<"h">>), PrintReq(""), PrintReq("greeting"),
        ExitReq("0"), ReturnStmt("0")>>,
      \* two print requests, the second one's binding declared after or
      \* before it
      <<LetStr("greeting", <<"h">>), PrintReq("greeting"), PrintReq("other"),
        LetStr("other", <<"n">>), ExitReq("0"), ReturnStmt("0")>>,
      <<LetStr("greeting", <<"h">>), LetStr("other", <<"n">>), PrintReq("greeting"),
        PrintReq("other"), ExitReq("0"), ReturnStmt("0")>> }

LoopProgram(an, a, cn, c, w, add, sub, e, r) ==
    <<LetInt(an, a), LetInt(cn, c), w, add, sub, CloseBrace, ExitReq(e), ReturnStmt(r)>>

LoopPrograms ==
    \* the accepted shape, over initial values
    { LoopProgram("sum", a, "n", c, While("n", "0"), AddStmt("sum", "sum", "n"),
                  SubStmt("n", "n", "1"), "sum", "sum") :
        a \in {"-2", "0", "5", "4294967301"},
        c \in {Numeral(i) : i \in 0..MaxCounter} \cup {"-4294967291"} }
    \cup
    \* deviations of the loop statements and of exit/return
    { LoopProgram("sum", "0", "n", "2", While(wv, "0"), AddStmt(at, al, ar),
                  SubStmt(st, "n", sr), e, r) :
        wv \in {"n", "m"}, at \in {"sum", "n"}, al \in {"sum", "n"}, ar \in {"n", "m"},
        st \in {"n", "m"}, sr \in {"1", "2"}, e \in {"sum", "n"}, r \in {"sum", "n"} }
    \cup
    \* a loop together with the other shapes' markers, and malformed loops
    { <<LetMul("t", "sum", "n")>> \o
        LoopProgram("sum", "1", "n", "2", While("n", "0"), AddStmt("sum", "sum", "n"),
                    SubStmt("n", "n", "1"), "sum", "sum"),
      <<LetStr("greeting", <<"h", "*">>)>> \o
        LoopProgram("sum", "1", "n", "2", While("n", "0"), AddStmt("sum", "sum", "n"),
                    SubStmt("n", "n", "1"), "sum", "sum"),
      <<LetInt("sum", "0"), LetInt("n", "1"), While("n", "0"), AddStmt("sum", "sum", "n"),
        SubStmt("n", "n", "1")>>,
      <<LetInt("sum", "0"), LetInt("n", "1"), While("", "")>>,
      <<LetInt("sum", "0"), LetInt("sum", "1"), While("n", "0")>>,
      LoopProgram("sum", "1", "n", "2", While("n", "0"), AddStmt("sum", "sum", "n"),
                  SubStmt("n", "n", "1"), "", "sum"),
      LoopProgram("sum", "1", "n", "2", While("n", "0"), AddStmt("sum", "sum", "n"),
                  SubStmt("n", "n", "1"), "sum", ""),
      LoopProgram("sum", "1", "n", "2", While("n", "0"), CloseBrace,
                  SubStmt("n", "n", "1"), "sum", "sum"),
      LoopProgram("sum", "1", "n", "2", While("n", "0"), AddStmt("sum", "sum", "n"),
                  CloseBrace, "sum", "sum"),
      LoopProgram("total", "1", "n", "2", While("n", "0"), AddStmt("sum", "sum", "n"),
                  SubStmt("n", "n", "1"), "sum", "sum"),
      \* the decrement reads another variable; the counter is not declared
      LoopProgram("sum", "1", "n", "2", While("n", "0"), AddStmt("sum", "sum", "n"),
                  SubStmt("n", "m", "1"), "sum", "sum"),
      LoopProgram("sum", "1", "n", "2", While("m", "0"), AddStmt("sum", "sum", "m"),
                  SubStmt("m", "m", "1"), "sum", "sum"),
      \* a let whose initializer is no numeral next to a well-formed loop
      <<LetInt("t", "sum")>> \o
        LoopProgram("sum", "1", "n", "2", While("n", "0"), AddStmt("sum", "sum", "n"),
                    SubStmt("n", "n", "1"), "sum", "sum"),
      \* `while n > 5 {`, and `while n < 0 {` (no `>`: the variable text is
      \* the rest of the line)
      LoopProgram("sum", "1", "n", "2", While("n", "5"), AddStmt("sum", "sum", "n"),
                  SubStmt("n", "n", "1"), "sum", "sum"),
      LoopProgram("sum", "1", "n", "2", While("n < 0 {", ""), AddStmt("sum", "sum", "n"),
                  SubStmt("n", "n", "1"), "sum", "sum"),
      \* two loops one after the other
      <<LetInt("sum", "1"), LetInt("n", "2"),
        While("n", "0"), AddStmt("sum", "sum", "n"), SubStmt("n", "n", "1"), CloseBrace,
        While("n", "0"), AddStmt("sum", "sum", "n"), SubStmt("n", "n", "1"), CloseBrace,
        ExitReq("sum"), ReturnStmt("sum")>>,
      \* a third statement in the loop body
      <<LetInt("sum", "1"), LetInt("n", "2"),
        While("n", "0"), AddStmt("sum", "sum", "n"), SubStmt("n", "n", "1"),
        AddStmt("sum", "sum", "n"), CloseBrace,
        ExitReq("sum"), ReturnStmt("sum")>> }

PiProgram(a, b, c, mx, my, dx, dy, e, r) ==
    <<LetInt("num", a), LetInt("den", b), LetInt("scale", c), LetMul("tmp", mx, my),
      LetDiv("res", dx, dy), ExitReq(e), ReturnStmt(r)>>

PiPrograms ==
    \* the accepted shape, over initial values
    { PiProgram(a, b, c, "num", "scale", "tmp", "den", "res", "res") :
        a \in {"-7", "22", "4294967301"}, b \in {"0", "7", "-2", "4294967301"},
        c \in {"1", "3"} }
    \cup
    \* deviations of the operands and of exit/return
    { PiProgram("22", "7", "3", mx, my, dx, dy, e, r) :
        mx \in {"num", "scale", "nil"}, my \in {"scale", "den"}, dx \in {"tmp", "num"},
        dy \in {"den", "scale", "nil"}, e \in {"res", "tmp"}, r \in {"res", "tmp"} }
    \cup
    \* repeated, missing or malformed statements; a string literal with an operator
    { <<LetMul("tmp", "num", "scale")>> \o
        PiProgram("22", "7", "3", "num", "scale", "tmp", "den", "res", "res"),
      PiProgram("22", "7", "3", "num", "scale", "tmp", "den", "res", "res")
        \o <<LetDiv("res", "tmp", "den")>>,
      <<LetInt("num", "22"), LetInt("den", "7"), LetMul("tmp", "num", "den"),
        ExitReq("tmp"), ReturnStmt("tmp")>>,
      <<LetInt("num", "22"), LetInt("den", "num"), LetMul("tmp", "num", "den")>>,
      PiProgram("22", "7", "3", "", "scale", "tmp", "den", "res", "res"),
      PiProgram("22", "7", "3", "num", "scale", "tmp", "", "res", "res"),
      PiProgram("22", "7", "3", "num", "scale", "tmp", "den", "", "res"),
      PiProgram("22", "7", "3", "num", "scale", "tmp", "den", "res", ""),
      <<LetInt("num", "5")>> \o
        PiProgram("22", "7", "3", "num", "scale", "tmp", "den", "res", "res"),
      <<LetStr("greeting", <<"/">>)>> \o
        PiProgram("22", "7", "3", "num", "scale", "tmp", "den", "res", "res"),
      \* a second multiplication or division followed by lines that would fail
      <<LetInt("num", "22"), LetInt("den", "7"), LetInt("scale", "3"),
        LetMul("tmp", "num", "scale"), LetMul("tmp2", "num", "scale"),
        LetDiv("res", "tmp", "den"), ExitReq(""), ReturnStmt("")>>,
      <<LetInt("num", "22"), LetInt("den", "7"), LetInt("scale", "3"),
        LetMul("tmp", "num", "scale"), LetDiv("res", "tmp", "den"),
        LetDiv("res2", "tmp", "den"), LetInt("x", "num"), ExitReq("res"), ReturnStmt("res")>>,
      <<LetInt("num", "22"), LetInt("den", "7"), LetInt("scale", "3"),
        LetMul("tmp", "num", "scale"), LetDiv("res", "tmp", "den"),
        LetMul("tmp2", "", "scale"), ExitReq("res"), ReturnStmt("res")>>,
      \* a line that fails before the second multiplication
      <<LetInt("x", "num"), LetMul("tmp", "num", "scale"), LetMul("tmp2", "num", "scale")>>,
      <<LetStr("greeting", <<"h", "*">>), PrintReq("greeting"), ExitReq("0"), ReturnStmt("0")>>,
      <<OtherLine(<<"*">>), LetStr("greeting", <<"h">>), PrintReq("greeting"),
        ExitReq("0"), ReturnStmt("0")>> }

UnsupportedPrograms ==
    { <<PrintReq("greeting"), ExitReq("0"), ReturnStmt("0")>>,
      <<LetInt("n", "1"), ExitReq("n"), ReturnStmt("n")>>,
      <<OtherLine(<<"h">>)>>,
      <<>> }

Programs == StringPrograms \cup LoopPrograms \cup PiPrograms \cup UnsupportedPrograms

HandLines ==
    { ML("bytes", <<"0", "x", "0", "1", "0", "2">>, ""),
      ML("bytes", <<"0", "x", "0", "A", "_", "0", "b", " ", ";">>, ""),
      ML("bytes", <<"0", "x", "0", "1", "2">>, ""),
      ML("bytes", <<"0", "x", "0", "1", "z", "z">>, ""),
      ML("bytes", <<"0", "1", "0", "2">>, ""),
      ML("bytes", <<"0", "x">>, ""),
      ML("ascii", <<"\"", "h", "i", "\"">>, ""),
      ML("ascii", <<"\"", "h">>, ""),
      ML("ascii", <<"\"", "\\", "q", "\"">>, ""),
      ML("ascii", <<"h", "i">>, ""),
      ML("pad", <<" ", "2">>, ""),
      ML("pad", <<>>, ""),
      ML("pad", <<" ", "q">>, ""),
      ML("halt", <<>>, ""),
      ML("label", <<>>, "main"),
      ML("label", <<>>, "loop"),
      ML("header", <<>>, "minimal_isa"),
      ML("org", <<"0", "x", "0", "0", "0", "0">>, ""),
      ML("halted", <<>>, ""),
      ML("padding", <<" ", "2">>, ""),
      ML("#", <<>>, ""),
      ML("", <<>>, "") }

HandManifests == SeqsUpTo(HandLines, MaxManifestLines)

\* instruction words evaluated per run: enough for every terminating loop
StepBudget == 5 * MaxCounter + 6

(***************************************************************************)
(* The pipeline                                                            *)
(*   pc: "start" -> "compiled" | "failed"     (aurc_compile_file)          *)
(*       "compiled" -> "assembled"   (aurc_assemble_manifest)              *)
(*       "compiled" -> "eval"        (evaluation of the words)             *)
(*       "start" -> "assembled"      (assembling a hand-written manifest)  *)
(***************************************************************************)
Init ==
    /\ pc = "start"
    /\ src = <<>>
    /\ ran = <<>>
    /\ ir = program_ir0
    /\ err = ""
    /\ loadrc = -1
    /\ emitrc = -1
    /\ mopen = 0
    /\ manifest = <<>>
    /\ bopen = 0
    /\ binary = <<>>
    /\ asmrc = -1
    /\ cpu = cpu0
    /\ paths = [output_path |-> TRUE, binary_path |-> TRUE, exe_path |-> FALSE]
    /\ stages = <<>>
    /\ exerc = -1
    /\ exit_status = -1
    /\ handles = {}

\* aurc_compile_file on an input file: load_program_ir, and emit_manifest
\* (which opens the output, writes and closes it) when that returned 0
\* A second run compiles the file of the first run again, with the same
\* build: an out-of-range numeral scans to what it scanned to before.
aurc_compile_file(lines, ovf) ==
    /\ \/ pc = "start"
       \/ /\ pc = "compiled"
          /\ mopen < MaxCompilations
          /\ lines = src
          /\ load_program_ir(lines, ovf).ir = ir
    /\ \E o \in {load_program_ir(lines, ovf)} :
       /\ src' = lines
       /\ ran' = select_recognizer(lines)
       /\ ir' = o.ir
       /\ err' = o.err
       /\ loadrc' = o.rc
       /\ IF o.rc # 0
          THEN /\ pc' = "failed"
               /\ UNCHANGED <<emitrc, mopen, manifest>>
          ELSE \E e \in {emit_manifest(o.ir)} :
               /\ mopen' = mopen + 1
               /\ manifest' = e.out
               /\ emitrc' = e.rc
               /\ pc' = IF e.rc = 0 THEN "compiled" ELSE "failed"
    /\ UNCHANGED <<bopen, binary, asmrc, cpu>>
    /\ UNCHANGED dvars

\* aurc_assemble_manifest on the manifest just written
AssembleManifest ==
    /\ pc = "compiled"
    /\ LET w == aurc_assemble_manifest(manifest) IN
       /\ bopen' = bopen + 1
       /\ binary' = w.out
       /\ asmrc' = w.rc
    /\ pc' = "assembled"
    /\ UNCHANGED <<src, ran, ir, err, loadrc, emitrc, mopen, manifest, cpu>>
    /\ UNCHANGED dvars

\* aurc_assemble_manifest on a manifest file from any producer
AssembleFile(m) ==
    /\ pc = "start"
    /\ manifest' = m
    /\ LET w == aurc_assemble_manifest(m) IN
       /\ bopen' = bopen + 1
       /\ binary' = w.out
       /\ asmrc' = w.rc
    /\ pc' = "assembled"
    /\ UNCHANGED <<src, ran, ir, err, loadrc, emitrc, mopen, cpu>>
    /\ UNCHANGED dvars

\* the words of main are evaluated from the label main on
\* the immediates a program loads into registers
Immediates(p) ==
    IF p.kind = PROGRAM_LOOP_SUM THEN {p.loop.accumulator_init, p.loop.counter_init}
    ELSE {p.pi.numerator_value, p.pi.denominator_value, p.pi.scale_value}

EvalStart ==
    /\ pc = "compiled"
    /\ ir.kind \in {PROGRAM_LOOP_SUM, PROGRAM_PI_TEST}
    /\ Immediates(ir) \subseteq SmallInts
    /\ pc' = "eval"
    /\ cpu' = [cpu0 EXCEPT !.state = "run",
                           !.at = NextWord(manifest, LabelAt(manifest, "main", 1))]
    /\ UNCHANGED <<src, ran, ir, err, loadrc, emitrc, mopen, manifest, bopen, binary, asmrc>>
    /\ UNCHANGED dvars

EvalStep ==
    /\ pc = "eval"
    /\ cpu.state = "run"
    /\ cpu.at <= Len(manifest)
    /\ cpu.steps < StepBudget
    /\ cpu' = Execute(manifest, cpu)
    /\ UNCHANGED <<pc, src, ran, ir, err, loadrc, emitrc, mopen, manifest, bopen, binary, asmrc>>
    /\ UNCHANGED dvars

Next ==
    \/ \E lines \in Programs, ovf \in ScanfOverflow : aurc_compile_file(lines, ovf)
    \/ AssembleManifest
    \/ \E m \in HandManifests : AssembleFile(m)
    \/ EvalStart
    \/ EvalStep

Spec == Init /\ [][Next]_vars

(***************************************************************************)
(* The command-line driver, main, from the check of output_path on.  pc is *)
(* the line main is at:                                                    *)
(*   "l56" -> "l69" -> "l78" -> "l87" -> "returned", or "returned" from    *)
(*   any of them with EXIT_FAILURE                                         *)
(***************************************************************************)
DriverInit ==
    /\ pc = "l56"
    /\ src = <<>>
    /\ ran = <<>>
    /\ ir = program_ir0
    /\ err = ""
    /\ loadrc = -1
    /\ emitrc = -1
    /\ mopen = 0
    /\ manifest = <<>>
    /\ bopen = 0
    /\ binary = <<>>
    /\ asmrc = -1
    /\ cpu = cpu0
    /\ paths \in [output_path : BOOLEAN, binary_path : BOOLEAN, exe_path : BOOLEAN]
    /\ stages = <<>>
    /\ exerc = -1
    /\ exit_status = -1
    /\ handles = {}

\* if (output_path == NULL) return EXIT_FAILURE;
main_output_required ==
    /\ pc = "l56"
    /\ ~paths.output_path
    /\ pc' = "returned"
    /\ exit_status' = EXIT_FAILURE
    /\ UNCHANGED <<src, ran, ir, err, loadrc, emitrc, mopen, manifest, bopen, binary, asmrc,
                   cpu, paths, stages, exerc, handles>>

\* rc = aurc_compile_file(input_path, output_path); if (rc != 0) return EXIT_FAILURE;
main_compile(lines, ovf) ==
    /\ pc = "l56"
    /\ paths.output_path
    /\ stages' = Append(stages, "compile")
    /\ \E o \in {load_program_ir(lines, ovf)} :
       /\ src' = lines
       /\ ran' = select_recognizer(lines)
       /\ ir' = o.ir
       /\ err' = o.err
       /\ loadrc' = o.rc
       /\ IF o.rc # 0
          THEN /\ pc' = "returned"
               /\ exit_status' = EXIT_FAILURE
               /\ UNCHANGED <<emitrc, mopen, manifest>>
          ELSE \E e \in {emit_manifest(o.ir)} :
               /\ mopen' = mopen + 1
               /\ manifest' = e.out
               /\ emitrc' = e.rc
               /\ pc' = IF e.rc = 0 THEN "l69" ELSE "returned"
               /\ exit_status' = IF e.rc = 0 THEN exit_status ELSE EXIT_FAILURE
    /\ UNCHANGED <<bopen, binary, asmrc, cpu, paths, exerc, handles>>

\* main_assemble without the return on a failed assembly
main_assemble_continues ==
    /\ pc = "l69"
    /\ paths.binary_path
    /\ stages' = Append(stages, "assemble")
    /\ \E w \in {aurc_assemble_manifest(manifest)} :
       /\ bopen' = bopen + 1
       /\ binary' = w.out
       /\ asmrc' = w.rc
       /\ pc' = "l78"
       /\ exit_status' = exit_status
    /\ UNCHANGED <<src, ran, ir, err, loadrc, emitrc, mopen, manifest, cpu, paths, exerc, handles>>

\* if (binary_path != NULL) { rc = aurc_assemble_manifest(...); if (rc != 0) return EXIT_FAILURE; }
main_assemble ==
    /\ pc = "l69"
    /\ paths.binary_path
    /\ stages' = Append(stages, "assemble")
    /\ \E w \in {aurc_assemble_manifest(manifest)} :
       /\ bopen' = bopen + 1
       /\ binary' = w.out
       /\ asmrc' = w.rc
       /\ pc' = IF w.rc = 0 THEN "l78" ELSE "returned"
       /\ exit_status' = IF w.rc = 0 THEN exit_status ELSE EXIT_FAILURE
    /\ UNCHANGED <<src, ran, ir, err, loadrc, emitrc, mopen, manifest, cpu, paths, exerc, handles>>

\* binary_path == NULL: the assembler is not called
main_no_binary ==
    /\ pc = "l69"
    /\ ~paths.binary_path
    /\ pc' = "l78"
    /\ UNCHANGED <<src, ran, ir, err, loadrc, emitrc, mopen, manifest, bopen, binary, asmrc,
                   cpu, paths, stages, exerc, exit_status, handles>>

\* if (exe_path != NULL) { rc = aurc_compile_to_exe(...); if (rc != 0) return EXIT_FAILURE; }
\* aurc_compile_to_exe loads the program again and returns 1 on a host that
\* is not Windows; on Windows it returns what the C toolchain run gives.
main_compile_to_exe(rc) ==
    /\ pc = "l78"
    /\ paths.exe_path
    /\ stages' = Append(stages, "exe")
    /\ exerc' = rc
    /\ pc' = IF rc = 0 THEN "l87" ELSE "returned"
    /\ exit_status' = IF rc = 0 THEN exit_status ELSE EXIT_FAILURE
    /\ UNCHANGED <<src, ran, ir, err, loadrc, emitrc, mopen, manifest, bopen, binary, asmrc,
                   cpu, paths, handles>>

\* exe_path == NULL: aurc_compile_to_exe is not called
main_no_exe ==
    /\ pc = "l78"
    /\ ~paths.exe_path
    /\ pc' = "l87"
    /\ UNCHANGED <<src, ran, ir, err, loadrc, emitrc, mopen, manifest, bopen, binary, asmrc,
                   cpu, paths, stages, exerc, exit_status, handles>>

\* return EXIT_SUCCESS;
main_return ==
    /\ pc = "l87"
    /\ pc' = "returned"
    /\ exit_status' = EXIT_SUCCESS
    /\ UNCHANGED <<src, ran, ir, err, loadrc, emitrc, mopen, manifest, bopen, binary, asmrc,
                   cpu, paths, stages, exerc, handles>>

DriverNext ==
    \/ main_output_required
    \/ \E lines \in Programs, ovf \in ScanfOverflow : main_compile(lines, ovf)
    \/ main_assemble
    \/ main_no_binary
    \/ \E rc \in {0, 1} : main_compile_to_exe(rc)
    \/ main_no_exe
    \/ main_return

\* main is a sequential program: a run that has not returned takes its next step
DriverSpec == DriverInit /\ [][DriverNext]_vars /\ WF_vars(DriverNext)

(***************************************************************************)
(* The FILE handles of a run: aurc_compile_file and aurc_assemble_manifest *)
(* step by step, one step per fopen and one per stretch of work that ends  *)
(* with the fclose calls.  A handle is the file and its mode.  fopen may   *)
(* fail.                                                                   *)
(*   pc: "start" -> "parse" -> "emit" -> "write" -> "compiled"             *)
(*       "compiled" -> "open_binary" -> "loop" -> "assembled"              *)
(*       any of them -> "failed"                                           *)
(***************************************************************************)
HandleInit == Init

\* load_program_ir: memset, FILE *fp = fopen(input_path, "r")
load_program_ir_fopen(lines, ok) ==
    /\ pc = "start"
    /\ src' = lines
    /\ IF ok
       THEN /\ handles' = handles \cup {"source r"}
            /\ pc' = "parse"
            /\ UNCHANGED loadrc
       ELSE /\ loadrc' = 1
            /\ pc' = "failed"
            /\ UNCHANGED handles
    /\ UNCHANGED <<ran, ir, err, emitrc, mopen, manifest, bopen, binary, asmrc, cpu,
                   paths, stages, exerc, exit_status>>

\* load_program_ir without the fclose(fp)
load_program_ir_parse_leaks(ovf) ==
    /\ pc = "parse"
    /\ \E o \in {load_program_ir(src, ovf)} :
       /\ ran' = select_recognizer(src)
       /\ ir' = o.ir
       /\ err' = o.err
       /\ loadrc' = o.rc
       /\ pc' = IF o.rc = 0 THEN "emit" ELSE "failed"
    /\ handles' = handles
    /\ UNCHANGED <<src, emitrc, mopen, manifest, bopen, binary, asmrc, cpu,
                   paths, stages, exerc, exit_status>>

\* load_program_ir: rc = parse_source(fp, ir); fclose(fp); then
\* validate_program when rc is 0
load_program_ir_parse(ovf) ==
    /\ pc = "parse"
    /\ \E o \in {load_program_ir(src, ovf)} :
       /\ ran' = select_recognizer(src)
       /\ ir' = o.ir
       /\ err' = o.err
       /\ loadrc' = o.rc
       /\ pc' = IF o.rc = 0 THEN "emit" ELSE "failed"
    /\ handles' = handles \ {"source r"}
    /\ UNCHANGED <<src, emitrc, mopen, manifest, bopen, binary, asmrc, cpu,
                   paths, stages, exerc, exit_status>>

\* emit_manifest: FILE *out = fopen(output_path, "w")
emit_manifest_fopen(ok) ==
    /\ pc = "emit"
    /\ IF ok
       THEN /\ handles' = handles \cup {"manifest w"}
            /\ mopen' = mopen + 1
            /\ manifest' = <<>>
            /\ pc' = "write"
            /\ UNCHANGED emitrc
       ELSE /\ emitrc' = 1
            /\ pc' = "failed"
            /\ UNCHANGED <<handles, mopen, manifest>>
    /\ UNCHANGED <<src, ran, ir, err, loadrc, bopen, binary, asmrc, cpu,
                   paths, stages, exerc, exit_status>>

\* emit_manifest: the variant's writer, the runtime section, fclose(out)
emit_manifest_write ==
    /\ pc = "write"
    /\ \E e \in {emit_manifest(ir)} :
       /\ manifest' = e.out
       /\ emitrc' = e.rc
       /\ pc' = IF e.rc = 0 THEN "compiled" ELSE "failed"
    /\ handles' = handles \ {"manifest w"}
    /\ UNCHANGED <<src, ran, ir, err, loadrc, mopen, bopen, binary, asmrc, cpu,
                   paths, stages, exerc, exit_status>>

\* aurc_assemble_manifest: FILE *in = fopen(manifest_path, "r")
aurc_assemble_manifest_fopen_in(ok) ==
    /\ pc = "compiled"
    /\ IF ok
       THEN /\ handles' = handles \cup {"manifest r"}
            /\ pc' = "open_binary"
            /\ UNCHANGED asmrc
       ELSE /\ asmrc' = 1
            /\ pc' = "failed"
            /\ UNCHANGED handles
    /\ UNCHANGED <<src, ran, ir, err, loadrc, emitrc, mopen, manifest, bopen, binary, cpu,
                   paths, stages, exerc, exit_status>>

\* aurc_assemble_manifest: FILE *out = fopen(binary_path, "wb"); on failure
\* fclose(in) and return 1
aurc_assemble_manifest_fopen_out(ok) ==
    /\ pc = "open_binary"
    /\ IF ok
       THEN /\ handles' = handles \cup {"binary w"}
            /\ bopen' = bopen + 1
            /\ binary' = <<>>
            /\ pc' = "loop"
            /\ UNCHANGED asmrc
       ELSE /\ handles' = handles \ {"manifest r"}
            /\ asmrc' = 1
            /\ pc' = "failed"
            /\ UNCHANGED <<bopen, binary>>
    /\ UNCHANGED <<src, ran, ir, err, loadrc, emitrc, mopen, manifest, cpu,
                   paths, stages, exerc, exit_status>>

\* aurc_assemble_manifest: the loop over the lines, fclose(in), fclose(out)
aurc_assemble_manifest_loop ==
    /\ pc = "loop"
    /\ \E w \in {aurc_assemble_manifest(manifest)} :
       /\ binary' = w.out
       /\ asmrc' = w.rc
    /\ handles' = handles \ {"manifest r", "binary w"}
    /\ pc' = "assembled"
    /\ UNCHANGED <<src, ran, ir, err, loadrc, emitrc, mopen, manifest, bopen, cpu,
                   paths, stages, exerc, exit_status>>

HandleNext ==
    \/ \E lines \in Programs, ok \in BOOLEAN : load_program_ir_fopen(lines, ok)
    \/ \E ovf \in ScanfOverflow : load_program_ir_parse(ovf)
    \/ \E ok \in BOOLEAN : emit_manifest_fopen(ok)
    \/ emit_manifest_write
    \/ \E ok \in BOOLEAN : aurc_assemble_manifest_fopen_in(ok)
    \/ \E ok \in BOOLEAN : aurc_assemble_manifest_fopen_out(ok)
    \/ aurc_assemble_manifest_loop

HandleSpec == HandleInit /\ [][HandleNext]_vars

(***************************************************************************)
(* Properties                                                              *)
(***************************************************************************)
Loaded == loadrc # -1

SrcHasWhile == \E i \in 1..Len(src) : src[i].k = "while"
SrcHasOperator ==
    \E i \in 1..Len(src) :
        \/ src[i].k \in {"letmul", "letdiv"}
        \/ \E j \in 1..Len(src[i].lit) : src[i].lit[j] \in {"*", "/"}
SrcHasStringDecl == \E i \in 1..Len(src) : src[i].k = "letstr"

LoopDiagnostics ==
    {"duplicate int binding", "too many int bindings", "malformed exit statement",
     "malformed return statement", "expected while-loop", "loop body too short",
     "expected accumulator assignment", "expected counter decrement",
     "accumulator update must add into same variable", "accumulator must add loop counter",
     "counter decrement must target loop counter", "counter decrement must subtract 1",
     "accumulator/counter must be defined via let",
     "loop lowering missing accumulator/counter", "exit/return must target accumulator"}

\* C1: parse_source picks the recognizer by first match in the order
\* while-line -> Loop-Sum, `*` or `/` -> Pi, `: string =` -> String, otherwise
\* the unsupported-program-shape failure; at most one recognizer runs, and a
\* successful compilation yields the IR variant of the recognizer picked.
C1_RecognizerPrecedence ==
    Loaded =>
        /\ Len(ran) <= 1
        /\ SrcHasWhile => ran = <<"loop">>
        /\ ~SrcHasWhile /\ SrcHasOperator => ran = <<"pi">>
        /\ ~SrcHasWhile /\ ~SrcHasOperator /\ SrcHasStringDecl => ran = <<"string">>
        /\ ~SrcHasWhile /\ ~SrcHasOperator /\ ~SrcHasStringDecl =>
               ran = <<>> /\ loadrc = 1 /\ err = "unsupported program shape"
        /\ ran = <<"loop">> =>
               IF loadrc = 0 THEN ir.kind = PROGRAM_LOOP_SUM ELSE err \in LoopDiagnostics
        /\ ran = <<"pi">> /\ loadrc = 0 => ir.kind = PROGRAM_PI_TEST
        /\ ran = <<"string">> /\ loadrc = 0 => ir.kind = PROGRAM_STRING

\* a program with a while line and a multiplication is compiled as Loop-Sum
C1_LoopWinsOverArithmetic ==
    /\ Loaded /\ loadrc = 0
    /\ SrcHasWhile /\ SrcHasOperator
    /\ ran = <<"loop">>
    /\ ir.kind = PROGRAM_LOOP_SUM

RECURSIVE Triangle(_)
Triangle(n) == IF n <= 0 THEN 0 ELSE n + Triangle(n - 1)

EvaluatingLoop ==
    /\ pc = "eval"
    /\ ir.kind = PROGRAM_LOOP_SUM
    /\ ir.loop.counter_init \in 0..MaxCounter

\* C2: for an accepted Loop-Sum program with counter n >= 0 and accumulator a,
\* evaluating the emitted words one by one reaches the exit label, within the
\* words n iterations take, and exits with R0 = a + n + (n-1) + ... + 1
\* (R0 = a when n = 0).
C2_LoopSumResult ==
    EvaluatingLoop =>
        /\ cpu.state \in {"run", "exit"}
        /\ cpu.state = "exit" =>
               cpu.r[ISA_REG_R0] = ir.loop.accumulator_init + Triangle(ir.loop.counter_init)
        /\ cpu.steps >= 5 * ir.loop.counter_init + 6 => cpu.state = "exit"

\* with n = 0 the body has run once and the counter is below zero
C2_CounterBelowZero ==
    /\ EvaluatingLoop
    /\ ir.loop.counter_init = 0
    /\ cpu.r[ISA_REG_R2] < 0
    /\ cpu.r[ISA_REG_R1] # ir.loop.accumulator_init

\* for n >= 1 the template does compute the sum
C2_PositiveCounterExits ==
    /\ EvaluatingLoop
    /\ ir.loop.counter_init = MaxCounter
    /\ cpu.state = "exit"
    /\ cpu.r[ISA_REG_R0] = ir.loop.accumulator_init + Triangle(MaxCounter)

\* the source's declarations, read off the lines
SrcOfKind(k) == SelectSeq(src, LAMBDA l : l.k = k)
SrcDeclares(name) == \E i \in 1..Len(src) : src[i].k = "letint" /\ src[i].n = name
\* the numeral of the first `let name: int = <numeral>;`
SrcNumeral(name) == SelectSeq(src, LAMBDA l : l.k = "letint" /\ l.n = name)[1].x
SrcInRange(name) == strtoll(SrcNumeral(name)).q = 0
SrcValue(name) == strtoll(SrcNumeral(name)).r

SrcMul == SrcOfKind("letmul")[1]
SrcDiv == SrcOfKind("letdiv")[1]

EvaluatingPi ==
    /\ pc = "eval"
    /\ ir.kind = PROGRAM_PI_TEST
    /\ SrcInRange(SrcMul.x) /\ SrcInRange(SrcMul.y) /\ SrcInRange(SrcDiv.y)

\* C3: for an accepted Pi program the emitted words load the value of the
\* multiplication's left operand into R1, of the division's right operand into
\* R2 and of the multiplication's right operand into R3, and evaluating
\* mul r4,r1,r3 / div r5,r4,r2 / mov r0,r5 exits with
\* R0 = (numerator * scale) / denominator, the quotient truncated toward zero.
C3_PiResult ==
    EvaluatingPi =>
        /\ cpu.state \in {"run", "exit"}
        /\ cpu.steps >= 3 =>
               /\ cpu.r[ISA_REG_R1] = SrcValue(SrcMul.x)
               /\ cpu.r[ISA_REG_R2] = SrcValue(SrcDiv.y)
               /\ cpu.r[ISA_REG_R3] = SrcValue(SrcMul.y)
        /\ cpu.steps >= 8 => cpu.state = "exit"
        /\ cpu.state = "exit" =>
               cpu.r[ISA_REG_R0] =
                   TruncDiv(SrcValue(SrcMul.x) * SrcValue(SrcMul.y), SrcValue(SrcDiv.y))

\* a program with a negative numerator and an inexact quotient has exited
C3_NegativeQuotientTruncated ==
    /\ EvaluatingPi
    /\ cpu.state = "exit"
    /\ SrcValue(SrcMul.x) < 0
    /\ TruncRem(SrcValue(SrcMul.x) * SrcValue(SrcMul.y), SrcValue(SrcDiv.y)) # 0
    /\ cpu.r[ISA_REG_R0] * SrcValue(SrcDiv.y) # cpu.r[ISA_REG_R4]

\* the source is a Pi-shaped program whose division's right operand is 0
SrcPiDenominatorZero ==
    /\ ~SrcHasWhile
    /\ Len(SrcOfKind("letdiv")) = 1
    /\ SrcDeclares(SrcDiv.y)
    /\ SrcInRange(SrcDiv.y)
    /\ SrcValue(SrcDiv.y) = 0

\* C4: the manifest writer runs only after recognition and validation have
\* succeeded; when either fails, in particular for a Pi program whose
\* denominator is 0, aurc_compile_file fails without having opened the manifest
\* and without a single word written.
C4_NoEncodingOfInvalidIr ==
    /\ Loaded /\ loadrc # 0 =>
           /\ mopen = 0 /\ manifest = <<>> /\ emitrc = -1
           /\ pc = "failed"
    /\ Loaded /\ SrcPiDenominatorZero => loadrc # 0 /\ mopen = 0 /\ manifest = <<>>
    /\ mopen > 0 => loadrc = 0 /\ ir.kind # PROGRAM_NONE

\* a Pi program with denominator 0 has failed with nothing written
C4_ZeroDenominatorRejected ==
    /\ pc = "failed"
    /\ SrcPiDenominatorZero
    /\ err = "pi program denominator must be non-zero"
    /\ mopen = 0 /\ manifest = <<>>

\* the names whose initial values become immediates
SrcImmediateNames ==
    IF ir.kind = PROGRAM_LOOP_SUM THEN {ir.loop.accumulator, ir.loop.counter}
    ELSE IF ir.kind = PROGRAM_PI_TEST
    THEN {ir.pi.numerator_var, ir.pi.denominator_var, ir.pi.scale_var}
    ELSE {}

SrcImmediateOutOfRange ==
    /\ Loaded /\ loadrc = 0
    /\ \E name \in SrcImmediateNames : ~SrcInRange(name)

\* C5: an integer initializer outside [-2^31, 2^31 - 1] that would become an
\* immediate makes the compilation fail; no manifest with a word for it is
\* ever produced.
C5_OutOfRangeInitializerRejected ==
    SrcImmediateOutOfRange => emitrc # 0 /\ pc \notin {"compiled", "assembled", "eval"}

\* `let num: int = 4294967301;` of a Pi program compiled to the word mov r1, #5
C5_WrappedImmediateEncoded ==
    /\ SrcImmediateOutOfRange
    /\ pc = "compiled"
    /\ ir.kind = PROGRAM_PI_TEST
    /\ SrcNumeral(ir.pi.numerator_var) = "4294967301"
    /\ \E i \in 1..Len(manifest) :
           /\ manifest[i].kw = "bytes"
           /\ WordOf(manifest[i]) = encode_mov_immediate(ISA_REG_R1, 5)

\* hand-written directives with a missing or unsupported part: odd-length hex,
\* invalid hex digit, missing 0x, empty payload, missing closing quote,
\* unsupported escape, missing opening quote, missing pad value, invalid pad value
MalformedLines ==
    { ML("bytes", <<"0", "x", "0", "1", "2">>, ""),
      ML("bytes", <<"0", "x", "0", "1", "z", "z">>, ""),
      ML("bytes", <<"0", "1", "0", "2">>, ""),
      ML("bytes", <<"0", "x">>, ""),
      ML("ascii", <<"\"", "h">>, ""),
      ML("ascii", <<"\"", "\\", "q", "\"">>, ""),
      ML("ascii", <<"h", "i">>, ""),
      ML("pad", <<>>, ""),
      ML("pad", <<" ", "q">>, "") }

HandAssembled == pc = "assembled" /\ ~Loaded

HasMalformedLine == \E i \in 1..Len(manifest) : manifest[i] \in MalformedLines

\* C6: a manifest with a malformed directive makes aurc_assemble_manifest
\* fail, and after the failure the binary output holds none of the bytes of
\* the directives before the malformed one.
C6_NoPartialImage ==
    HandAssembled =>
        /\ HasMalformedLine => asmrc = 1
        /\ asmrc # 0 => binary = <<>>

\* `bytes 0x0102` followed by `bytes 0x012`: the failed assembly left 01 02 01
C6_PartialImageRetained ==
    /\ HandAssembled
    /\ asmrc = 1
    /\ manifest = << ML("bytes", <<"0", "x", "0", "1", "0", "2">>, ""),
                     ML("bytes", <<"0", "x", "0", "1", "2">>, "") >>
    /\ binary = <<1, 2, 1>>

RECURSIVE SumLen(_)
SumLen(bindings) ==
    IF bindings = <<>> THEN 0
    ELSE Len(Head(bindings).literal) + 16 + SumLen(Tail(bindings))

WriterAssembled == pc = "assembled" /\ Loaded /\ loadrc = 0 /\ emitrc = 0

\* C7: every manifest the writer produced from a validated IR assembles, and
\* the image is 16 + sum(len(literal_i) + 16) + 24 bytes long for a String
\* program, 64 + 16 for a Loop-Sum program and 56 + 16 for a Pi program.
C7_ImageLength ==
    WriterAssembled =>
        /\ asmrc = 0
        /\ Len(binary) =
               CASE ir.kind = PROGRAM_STRING -> 16 + SumLen(ir.bindings) + 24
                 [] ir.kind = PROGRAM_LOOP_SUM -> 64 + 16
                 [] ir.kind = PROGRAM_PI_TEST -> 56 + 16

\* the one-binding program with the literal \n (backslash, n) assembled to an
\* image one byte shorter than 16 + (2 + 16) + 24
C7_ShortImage ==
    /\ WriterAssembled
    /\ ir.kind = PROGRAM_STRING
    /\ Len(ir.bindings) = 1
    /\ ir.bindings[1].literal = <<"\\", "n">>
    /\ asmrc = 0
    /\ Len(binary) = 16 + (2 + 16) + 24 - 1

\* the bytes of a text
BytesOf(text) == [i \in 1..Len(text) |-> CharCode(text[i])]

Contains(bytes, run) ==
    \E k \in 0..(Len(bytes) - Len(run)) : SubSeq(bytes, k + 1, k + Len(run)) = run

PrintedLiteral == ir.bindings[ir.print_binding_index + 1].literal

\* C8: for an accepted String program the image contains the bytes of the
\* printed binding's literal as written in the source, and every binding's
\* literal, written by write_escape_ascii and decoded by emit_ascii_bytes,
\* gives its own bytes back.
C8_LiteralRoundTrip ==
    WriterAssembled /\ ir.kind = PROGRAM_STRING =>
        /\ asmrc = 0
        /\ Contains(binary, BytesOf(PrintedLiteral))
        /\ \A i \in 1..Len(ir.bindings) :
               emit_ascii_bytes(write_escape_ascii(ir.bindings[i].literal).arg)
                   = Wrote(0, BytesOf(ir.bindings[i].literal))

\* the literal \h (backslash, h) is written unescaped and the assembly fails
\* on the escape
C8_BackslashNotEscaped ==
    /\ WriterAssembled /\ ir.kind = PROGRAM_STRING
    /\ PrintedLiteral = <<"\\", "h">>
    /\ \E i \in 1..Len(manifest) :
           manifest[i].kw = "ascii" /\ manifest[i].arg = <<"\"", "\\", "h", "\"">>
    /\ asmrc = 1

\* the string declarations the String recognizer reads, in source order
SrcStringDecls == SelectSeq(src, LAMBDA l : l.k = "letstr" /\ l.lit # <<>>)

\* positions of the data blocks of the manifest: label, ascii, pad
BlockStarts ==
    SelectSeq([i \in 1..Len(manifest) |-> i],
              LAMBDA i : /\ i + 2 <= Len(manifest)
                         /\ manifest[i].kw = "label"
                         /\ manifest[i + 1].kw = "ascii"
                         /\ manifest[i + 2].kw = "pad")

CountOf(kw) == Cardinality({i \in 1..Len(manifest) : manifest[i].kw = kw})

\* the label the first instruction of main refers to: addr(NAME)
PrintTarget == manifest[NextWord(manifest, LabelAt(manifest, "main", 1))].sym

StringManifestWritten ==
    /\ Loaded /\ loadrc = 0 /\ emitrc = 0
    /\ ir.kind = PROGRAM_STRING

\* C9: the manifest of an accepted String program has exactly one data block
\* (label NAME, ascii literal, pad) per string binding, in declaration order,
\* and the label named by the first instruction is the label of exactly one
\* of them.
C9_OneDataBlockPerBinding ==
    StringManifestWritten =>
        /\ Len(BlockStarts) = Len(SrcStringDecls)
        /\ CountOf("ascii") = Len(SrcStringDecls)
        /\ CountOf("pad") = Len(SrcStringDecls)
        /\ \A k \in 1..Len(BlockStarts) :
               /\ manifest[BlockStarts[k]].sym = SrcStringDecls[k].n
               /\ manifest[BlockStarts[k] + 1].arg = <<"\"">> \o SrcStringDecls[k].lit \o <<"\"">>
        /\ Cardinality({k \in 1..Len(BlockStarts) :
                           manifest[BlockStarts[k]].sym = PrintTarget}) = 1

\* a program with two bindings that prints the second one
C9_TwoBlocksSecondPrinted ==
    /\ StringManifestWritten
    /\ Len(SrcStringDecls) = 2
    /\ Len(BlockStarts) = 2
    /\ PrintTarget = SrcStringDecls[2].n
    /\ manifest[BlockStarts[2]].sym = PrintTarget

\* the argument of the last statement of a kind ("" when there is none)
SrcArg(k) == IF SrcOfKind(k) = <<>> THEN "" ELSE SrcOfKind(k)[Len(SrcOfKind(k))].x

SrcStringViolation ==
    \/ SrcArg("exit") # SrcArg("return")
    \/ \A i \in 1..Len(SrcStringDecls) : SrcStringDecls[i].n # SrcArg("print")

SrcLoopViolation ==
    \/ SrcArg("exit") # SrcArg("return")
    \/ \A i \in 1..Len(src) : src[i].k = "add" => src[i].n # SrcArg("exit")

SrcPiViolation ==
    \/ SrcPiDenominatorZero
    \/ SrcArg("exit") # SrcArg("return")
    \/ \A i \in 1..Len(src) : src[i].k = "letdiv" => src[i].n # SrcArg("exit")
    \/ \A i \in 1..Len(src), j \in 1..Len(src) :
           src[i].k = "letmul" /\ src[j].k = "letdiv" => src[i].n # src[j].x

\* C10: an IR that load_program_ir returns satisfies the invariant of its
\* variant, and a program violating it is rejected.  String: exit code =
\* return code, the print index is within the bindings and names the print
\* argument.  Loop-Sum: exit target = return target = accumulator.  Pi:
\* denominator # 0, the multiplication's result is the division's left operand,
\* division result = exit target = return target.
C10_VariantInvariant ==
    Loaded =>
        /\ loadrc = 0 /\ ir.kind = PROGRAM_STRING =>
               /\ ir.exit_value = ir.return_value
               /\ ir.print_binding_index \in 0..(string_binding_count(ir) - 1)
               /\ ir.bindings[ir.print_binding_index + 1].name = ir.print_arg
        /\ loadrc = 0 /\ ir.kind = PROGRAM_LOOP_SUM =>
               /\ ir.loop.exit_var = ir.loop.accumulator
               /\ ir.loop.return_var = ir.loop.accumulator
        /\ loadrc = 0 /\ ir.kind = PROGRAM_PI_TEST =>
               /\ ir.pi.denominator_value # 0
               /\ ir.pi.result_lhs = ir.pi.temp_var
               /\ ir.pi.result_var = ir.pi.exit_var
               /\ ir.pi.result_var = ir.pi.return_var
        /\ ran = <<"string">> /\ SrcStringViolation => loadrc # 0
        /\ ran = <<"loop">> /\ SrcLoopViolation => loadrc # 0
        /\ ran = <<"pi">> /\ SrcPiViolation => loadrc # 0

\* a loop program whose return names another variable than its exit is
\* rejected by the validator
C10_LoopReturnMismatchRejected ==
    /\ Loaded /\ loadrc # 0
    /\ ran = <<"loop">>
    /\ SrcArg("exit") # SrcArg("return")
    /\ err = "exit/return must target accumulator"

\* position in SrcStringDecls of the first declaration add_string_binding
\* refuses: a name declared before, or one more than the table holds; 0 if none
Refused(k) ==
    \/ \E j \in 1..(k - 1) : SrcStringDecls[j].n = SrcStringDecls[k].n
    \/ k > MAX_STRING_BINDINGS

FirstRefused ==
    IF \E k \in 1..Len(SrcStringDecls) : Refused(k)
    THEN CHOOSE k \in 1..Len(SrcStringDecls) :
             Refused(k) /\ \A j \in 1..(k - 1) : ~Refused(j)
    ELSE 0

DeclaredBefore(k) ==
    [i \in 1..(k - 1) |-> [name |-> SrcStringDecls[i].n, literal |-> SrcStringDecls[i].lit]]

\* C11: the binding table of the String recognizer never holds more than 8
\* bindings and never two with the same name; a let repeating a bound name
\* fails with the duplicate-binding error, a 9th distinct binding with the
\* too-many-bindings error, the table stays as it was before that let and the
\* compilation fails with nothing written.
C11_BindingTableBounded ==
    Loaded /\ ran = <<"string">> =>
        /\ Len(ir.bindings) <= MAX_STRING_BINDINGS
        /\ \A i, j \in 1..Len(ir.bindings) :
               ir.bindings[i].name = ir.bindings[j].name => i = j
        /\ FirstRefused = 0 => ir.bindings = DeclaredBefore(Len(SrcStringDecls) + 1)
        /\ FirstRefused # 0 =>
               /\ loadrc = 1 /\ pc = "failed" /\ mopen = 0 /\ manifest = <<>>
               /\ ir.bindings = DeclaredBefore(FirstRefused)
               /\ err = IF \E j \in 1..(FirstRefused - 1) :
                               SrcStringDecls[j].n = SrcStringDecls[FirstRefused].n
                        THEN "duplicate string binding"
                        ELSE "too many string bindings"

\* a program with nine distinct declarations failed with eight bindings kept
C11_NinthBindingRefused ==
    /\ Loaded /\ ran = <<"string">>
    /\ Len(SrcStringDecls) = MAX_STRING_BINDINGS + 1
    /\ FirstRefused = MAX_STRING_BINDINGS + 1
    /\ err = "too many string bindings"
    /\ Len(ir.bindings) = MAX_STRING_BINDINGS
    /\ pc = "failed"

\* position of the second statement of a kind, 0 when there are fewer than two
SecondOf(k) ==
    IF Len(SrcOfKind(k)) < 2 THEN 0
    ELSE CHOOSE i \in 1..Len(src) :
             /\ src[i].k = k
             /\ Cardinality({j \in 1..(i - 1) : src[j].k = k}) = 1

\* position of the first second multiplication or second division, 0 when none
FirstRepeat ==
    IF SecondOf("letmul") = 0 THEN SecondOf("letdiv")
    ELSE IF SecondOf("letdiv") = 0 THEN SecondOf("letmul")
    ELSE IF SecondOf("letmul") < SecondOf("letdiv") THEN SecondOf("letmul")
    ELSE SecondOf("letdiv")

\* line i is one the Pi recognizer fails on by itself
PiLineFails(i) ==
    \/ src[i].k = "letint" /\ ~IsNumeral(src[i].x)
    \/ src[i].k \in {"letmul", "letdiv"} /\ (src[i].x = "" \/ src[i].y = "")
    \/ src[i].k \in {"exit", "return"} /\ src[i].x = ""
    \/ src[i].k = "letint"
           /\ Cardinality({j \in 1..(i - 1) : src[j].k = "letint"}) >= MAX_INT_BINDINGS

\* C12: a Pi program is accepted only with exactly one multiplication and
\* exactly one division statement; a second multiplication or division fails
\* with the duplicate-statement error at its line, whatever the lines after
\* it are, and nothing is encoded.
C12_OneMultiplicationOneDivision ==
    Loaded /\ ran = <<"pi">> =>
        /\ loadrc = 0 => Len(SrcOfKind("letmul")) = 1 /\ Len(SrcOfKind("letdiv")) = 1
        /\ FirstRepeat # 0 =>
               /\ loadrc = 1 /\ pc = "failed" /\ mopen = 0 /\ manifest = <<>>
               /\ (\A i \in 1..(FirstRepeat - 1) : ~PiLineFails(i)) =>
                      err = IF src[FirstRepeat].k = "letmul"
                            THEN "multiple multiplication statements"
                            ELSE "multiple division statements"

\* a second multiplication followed by a malformed exit fails as a duplicate
C12_SecondMultiplicationRejected ==
    /\ Loaded /\ ran = <<"pi">>
    /\ FirstRepeat # 0 /\ src[FirstRepeat].k = "letmul"
    /\ \E i \in (FirstRepeat + 1)..Len(src) : PiLineFails(i)
    /\ err = "multiple multiplication statements"
    /\ pc = "failed" /\ mopen = 0

\* the while line and the two statements after it
SrcWhileAt == CHOOSE i \in 1..Len(src) : src[i].k = "while"
SrcAdd == src[SrcWhileAt + 1]
SrcSub == src[SrcWhileAt + 2]
SrcCounter == src[SrcWhileAt].n

\* the let lines of the Loop-Sum recognizer: a name and a numeral
SrcLetBound(name) ==
    \E i \in 1..Len(src) : src[i].k = "letint" /\ src[i].n = name /\ IsNumeral(src[i].x)

\* what such a let stores: the numeral's value, or for a numeral outside the
\* int range one of the values the C library may produce
SrcStored(name) ==
    IF SrcInRange(name) THEN {SrcValue(name)}
    ELSE {SrcValue(name), INT32_MAX, INT32_MIN}

\* the recognizer reached the loop body checks: one while line with a
\* variable, three lines after it, and no line the scan fails on
SrcLoopBodyChecked ==
    /\ Len(SrcOfKind("while")) = 1
    /\ SrcCounter # ""
    /\ SrcWhileAt + 3 <= Len(src)
    /\ \A i \in 1..Len(src) : src[i].k \in {"exit", "return"} => src[i].x # ""
    /\ \A i, j \in 1..Len(src) :
           src[i].k = "letint" /\ src[j].k = "letint" /\ src[i].n = src[j].n => i = j

\* the diagnostics of the body checks that the source violates
SrcBodyViolations ==
    {d \in LoopDiagnostics :
        \/ d = "expected accumulator assignment" /\ SrcAdd.k # "add"
        \/ d = "expected counter decrement" /\ SrcSub.k # "sub"
        \/ d = "accumulator update must add into same variable"
               /\ SrcAdd.k = "add" /\ SrcAdd.n # SrcAdd.x
        \/ d = "accumulator must add loop counter"
               /\ SrcAdd.k = "add" /\ SrcAdd.y # SrcCounter
        \/ d = "counter decrement must target loop counter"
               /\ SrcSub.k = "sub" /\ (SrcSub.n # SrcCounter \/ SrcSub.x # SrcCounter)
        \/ d = "counter decrement must subtract 1"
               /\ SrcSub.k = "sub" /\ SrcSub.y # "1"
        \/ d = "accumulator/counter must be defined via let"
               /\ SrcAdd.k = "add" /\ (~SrcLetBound(SrcAdd.n) \/ ~SrcLetBound(SrcCounter))}

\* C13: parse_loop_sum_program succeeds only if the statement after the while
\* line is ACC = ACC + COUNTER, the next one COUNTER = COUNTER - 1, and both
\* are let-bound; a violation fails with its own diagnostic; on success the
\* IR holds the two names and the values their lets stored.
C13_LoopBodyShape ==
    Loaded /\ ran = <<"loop">> /\ SrcLoopBodyChecked =>
        /\ SrcBodyViolations # {} => loadrc = 1 /\ err \in SrcBodyViolations
        /\ SrcBodyViolations = {} =>
               /\ ir.kind = PROGRAM_LOOP_SUM
               /\ ir.loop.accumulator = SrcAdd.n
               /\ ir.loop.counter = SrcCounter
               /\ ir.loop.accumulator_init \in SrcStored(SrcAdd.n)
               /\ ir.loop.counter_init \in SrcStored(SrcCounter)
        /\ ir.kind = PROGRAM_LOOP_SUM => SrcBodyViolations = {}

\* a decrement by 2 was refused with the subtract-1 diagnostic
C13_DecrementByTwoRefused ==
    /\ Loaded /\ ran = <<"loop">> /\ SrcLoopBodyChecked
    /\ SrcBodyViolations = {"counter decrement must subtract 1"}
    /\ err = "counter decrement must subtract 1"
    /\ ir.kind = PROGRAM_NONE

\* lines with a statement prefix of the recognizer that ran whose remainder
\* that recognizer cannot read
SrcMalformedLine(i) ==
    CASE ran = <<"string">> ->
            \/ src[i].k = "letstr" /\ src[i].lit = <<>>
            \/ src[i].k = "print" /\ src[i].x = ""
            \/ src[i].k \in {"exit", "return"} /\ ~IsNumeral(src[i].x)
      [] ran = <<"loop">> ->
            \/ src[i].k = "letint" /\ ~IsNumeral(src[i].x)
            \/ src[i].k = "while" /\ src[i].n = ""
            \/ src[i].k \in {"exit", "return"} /\ src[i].x = ""
      [] ran = <<"pi">> ->
            \/ src[i].k = "letint" /\ ~IsNumeral(src[i].x)
            \/ src[i].k \in {"letmul", "letdiv"} /\ (src[i].x = "" \/ src[i].y = "")
            \/ src[i].k \in {"exit", "return"} /\ src[i].x = ""
      [] OTHER -> FALSE

SrcHasMalformedLine == \E i \in 1..Len(src) : SrcMalformedLine(i)

\* C14: in each recognizer a line with one of its statement prefixes whose
\* remainder does not parse makes the recognizer fail; such a line is never
\* skipped.
C14_MalformedStatementFails ==
    Loaded /\ SrcHasMalformedLine => loadrc = 1

\* `request service exit(greeting);` next to `request service exit(0);` in a
\* String program: the line was skipped and the program compiled
C14_MalformedExitSkipped ==
    /\ Loaded /\ ran = <<"string">>
    /\ \E i \in 1..Len(src) : src[i].k = "exit" /\ ~IsNumeral(src[i].x)
    /\ loadrc = 0 /\ pc = "compiled"

ManifestWritten == Loaded /\ loadrc = 0 /\ emitrc = 0

LabelCount(m, name) ==
    Cardinality({i \in 1..Len(m) : m[i].kw = "label" /\ m[i].sym = name})

RuntimeLabels == {"__aur_runtime_print_and_exit", "__aur_runtime_exit_with_r0"}

\* position of the first runtime label of m, Len(m) + 1 when there is none
RuntimeStart(m) ==
    IF \E i \in 1..Len(m) : m[i].kw = "label" /\ m[i].sym \in RuntimeLabels
    THEN CHOOSE i \in 1..Len(m) :
             /\ m[i].kw = "label" /\ m[i].sym \in RuntimeLabels
             /\ \A j \in 1..(i - 1) : ~(m[j].kw = "label" /\ m[j].sym \in RuntimeLabels)
    ELSE Len(m) + 1

\* the lines of m from the first runtime label on
RuntimeLines(m) == SubSeq(m, RuntimeStart(m), Len(m))

\* the keywords of a routine's lines: label, its svc words, halt, blank line
PrintThenExitShape == <<"label", "bytes", "bytes", "halt", "">>
ExitWithR0Shape == <<"label", "bytes", "halt", "">>

Shape(lines) == [i \in 1..Len(lines) |-> lines[i].kw]

\* IRs on which emit_manifest fails: no variant, a String IR without a
\* resolved print binding
FailingIrs ==
    { program_ir0,
      [program_ir0 EXCEPT !.kind = PROGRAM_STRING,
                          !.bindings = <<[name |-> "greeting", literal |-> <<"h">>]>>] }

\* C15: a successfully written manifest holds each runtime routine at most
\* once, after every main instruction and data block: a String manifest only
\* the print-then-exit routine, a Loop-Sum or Pi manifest only the
\* exit-with-R0 routine; a failed emission appends no runtime routine.
C15_RuntimeRoutinesOnce ==
    /\ ManifestWritten =>
           /\ \A name \in RuntimeLabels : LabelCount(manifest, name) <= 1
           /\ LabelCount(manifest, "__aur_runtime_print_and_exit")
                  = (IF ir.kind = PROGRAM_STRING THEN 1 ELSE 0)
           /\ LabelCount(manifest, "__aur_runtime_exit_with_r0")
                  = (IF ir.kind = PROGRAM_STRING THEN 0 ELSE 1)
           /\ Shape(RuntimeLines(manifest))
                  = (IF ir.kind = PROGRAM_STRING THEN PrintThenExitShape ELSE ExitWithR0Shape)
           /\ \A i \in 1..(RuntimeStart(manifest) - 1) : manifest[i].kw # "halt"
           /\ \A i \in RuntimeStart(manifest)..Len(manifest) :
                  manifest[i].kw \notin {"ascii", "pad"} /\ manifest[i].sym # "main"
    /\ \A p \in FailingIrs :
           /\ emit_manifest(p).rc = 1
           /\ RuntimeStart(emit_manifest(p).out) = Len(emit_manifest(p).out) + 1

\* a String manifest with two data blocks ends with the one print-then-exit
\* routine
C15_PrintRoutineAfterData ==
    /\ ManifestWritten /\ ir.kind = PROGRAM_STRING
    /\ Len(BlockStarts) = 2
    /\ RuntimeStart(manifest) > BlockStarts[2] + 2
    /\ manifest[RuntimeStart(manifest)].sym = "__aur_runtime_print_and_exit"
    /\ Len(manifest) = RuntimeStart(manifest) + 4

\* the five fields of a word, by bit position: bits 63..56, 55..48, 47..40,
\* 39..32 and the signed value of bits 31..0
Unpack(w) ==
    [opcode |-> w[1], op0 |-> w[2], op1 |-> w[3], op2 |-> w[4],
     imm |-> FromU32(SubSeq(w, 5, 8))]

FieldOpcodes == {0, ISA_OPCODE_MOV, ISA_OPCODE_REM, 127, 128, 255}
FieldOperands == {ISA_OPERAND_UNUSED, ISA_REG_R7, 128, ISA_OPERAND_LABEL, ISA_OPERAND_IMMEDIATE}
FieldImmediates == {INT32_MIN, -3, -1, 0, 1, 256, INT32_MAX}

IsaOpcodes ==
    {ISA_OPCODE_MOV, ISA_OPCODE_ADD, ISA_OPCODE_SUB, ISA_OPCODE_CMP, ISA_OPCODE_JMP,
     ISA_OPCODE_CJMP, ISA_OPCODE_SVC, ISA_OPCODE_HALT, ISA_OPCODE_MUL, ISA_OPCODE_DIV,
     ISA_OPCODE_REM}

\* the words of the written manifest, unpacked
ManifestWords ==
    {Unpack(WordOf(manifest[i])) :
        i \in {j \in 1..Len(manifest) : manifest[j].kw \in {"bytes", "halt"}}}

\* destination register and value of every mov-immediate word of the manifest
MovImmediates ==
    {<<u.op0, u.imm>> : u \in {v \in ManifestWords :
        v.opcode = ISA_OPCODE_MOV /\ v.op1 = ISA_OPERAND_IMMEDIATE}}

\* the mov-immediate instructions the writer encodes for the IR
IrMovImmediates ==
    CASE ir.kind = PROGRAM_LOOP_SUM ->
            {<<ISA_REG_R1, ir.loop.accumulator_init>>, <<ISA_REG_R2, ir.loop.counter_init>>}
      [] ir.kind = PROGRAM_PI_TEST ->
            {<<ISA_REG_R1, ir.pi.numerator_value>>, <<ISA_REG_R2, ir.pi.denominator_value>>,
             <<ISA_REG_R3, ir.pi.scale_value>>}
      [] OTHER -> {<<ISA_REG_R0, 0>>}

\* C16: the opcode, the three operand bytes and the signed immediate are
\* recovered from a packed word by their bit positions, for the sampled field
\* values and for every word of a written manifest; a negative immediate leaves
\* the opcode and operand bytes alone.
C16_FieldsRecoverable ==
    /\ pc = "start" =>
           \A opcode \in FieldOpcodes, op0, op1, op2 \in FieldOperands, imm \in FieldImmediates :
               Unpack(pack_instruction_word(opcode, op0, op1, op2, ToU32(imm)))
                   = [opcode |-> opcode, op0 |-> op0, op1 |-> op1, op2 |-> op2, imm |-> imm]
    /\ ManifestWritten =>
           /\ \A u \in ManifestWords : u.opcode \in IsaOpcodes
           /\ MovImmediates = IrMovImmediates

\* a written manifest holds a mov of a negative immediate: the low half has
\* its sign bit set, opcode and operands are those of the mov
C16_NegativeImmediateStored ==
    /\ ManifestWritten
    /\ \E i \in 1..Len(manifest) :
           /\ manifest[i].kw = "bytes"
           /\ SubSeq(WordOf(manifest[i]), 1, 5) =
                  <<ISA_OPCODE_MOV, ISA_REG_R2, ISA_OPERAND_IMMEDIATE, ISA_OPERAND_UNUSED, 255>>
           /\ Unpack(WordOf(manifest[i])).imm < 0

Assembled == pc = "assembled"

AppendingDirectives == {"bytes", "ascii", "pad", "halt"}

\* the text of a bytes or pad line up to its trailing `;` comment
RECURSIVE UpToComment(_)
UpToComment(arg) ==
    IF arg = <<>> \/ Head(arg) = ";" THEN <<>> ELSE <<Head(arg)>> \o UpToComment(Tail(arg))

\* the manifest without the lines of other keywords, the names and the trailing
\* comments
DirectivesOnly(m) ==
    LET keep == SelectSeq(m, LAMBDA l : l.kw \in AppendingDirectives) IN
    [i \in 1..Len(keep) |->
        ML(keep[i].kw,
           IF keep[i].kw \in {"bytes", "pad"} THEN UpToComment(keep[i].arg) ELSE keep[i].arg,
           "")]

\* C17: only bytes, ascii, pad and halt lines append to the image: a manifest
\* assembles to what its bytes, ascii, pad and halt lines alone assemble to,
\* whatever its other lines, its label names and its trailing comments are.
C17_OnlyDirectivesAppend ==
    Assembled =>
        /\ asmrc = aurc_assemble_manifest(DirectivesOnly(manifest)).rc
        /\ binary = aurc_assemble_manifest(DirectivesOnly(manifest)).out

\* a line with the keyword `halted` appended the eight bytes of a halt word
C17_OtherKeywordAppends ==
    /\ HandAssembled
    /\ manifest = <<ML("halted", <<>>, "")>>
    /\ asmrc = 0
    /\ binary = <<ISA_OPCODE_HALT, 0, 0, 0, 0, 0, 0, 0>>

\* the characters of a bytes line after its `0x`, up to the first whitespace
\* or `;`
RECURSIVE UpToStop(_)
UpToStop(t) ==
    IF t = <<>> \/ Head(t) = ";" \/ IsSpace(Head(t)) THEN <<>>
    ELSE <<Head(t)>> \o UpToStop(Tail(t))

HexText(l) ==
    LET at == Find0x(l.arg, 1) IN
    SelectSeq(UpToStop(SubSeq(l.arg, at + 2, Len(l.arg))), LAMBDA c : c # "_")

\* a bytes line the claim has assemble: `0x`, then an even, positive number of
\* hex digits
WellFormedBytes(l) ==
    /\ Find0x(l.arg, 1) # 0
    /\ \A i \in 1..Len(HexText(l)) : hex_value(HexText(l)[i]) >= 0
    /\ Len(HexText(l)) % 2 = 0
    /\ Len(HexText(l)) > 0

\* the bytes its digits denote, two digits per byte, high nibble first
DenotedBytes(l) ==
    IF l.kw = "halt" THEN <<ISA_OPCODE_HALT, 0, 0, 0, 0, 0, 0, 0>>
    ELSE [i \in 1..(Len(HexText(l)) \div 2) |->
             16 * hex_value(HexText(l)[2 * i - 1]) + hex_value(HexText(l)[2 * i])]

RECURSIVE DenotedImage(_)
DenotedImage(m) == IF m = <<>> THEN <<>> ELSE DenotedBytes(Head(m)) \o DenotedImage(Tail(m))

BytesAndHaltOnly(m) == \A i \in 1..Len(m) : m[i].kw \in {"bytes", "halt"}

WordLines(m) == SelectSeq(m, LAMBDA l : l.kw \in {"bytes", "halt"})

\* C18: a bytes directive appends the bytes its hex digits denote, high
\* nibble first, `_` skipped, up to the first whitespace or `;`, and fails the
\* assembly on an odd digit count, a non-hex character, a missing `0x` or no
\* byte; a word of the writer assembles to its 8 bytes, most significant
\* first, the layout of the halt word.
C18_BytesDirective ==
    /\ Assembled /\ BytesAndHaltOnly(manifest) =>
           IF \A i \in 1..Len(manifest) :
                  manifest[i].kw = "bytes" => WellFormedBytes(manifest[i])
           THEN asmrc = 0 /\ binary = DenotedImage(manifest)
           ELSE asmrc = 1
    /\ WriterAssembled /\ ir.kind \in {PROGRAM_LOOP_SUM, PROGRAM_PI_TEST} =>
           /\ asmrc = 0
           /\ binary = DenotedImage(WordLines(manifest))
           /\ SubSeq(binary, 1, 8) =
                  encode_mov_immediate(ISA_REG_R1,
                      IF ir.kind = PROGRAM_LOOP_SUM THEN ir.loop.accumulator_init
                      ELSE ir.pi.numerator_value)
           /\ SubSeq(binary, Len(binary) - 15, Len(binary)) =
                  <<ISA_OPCODE_SVC, 2, 0, 0, 0, 0, 0, 0, ISA_OPCODE_HALT, 0, 0, 0, 0, 0, 0, 0>>

\* `bytes 0x0A_0b ;` followed by `halt` assembled to 0A 0B and the halt word
C18_UnderscoreSkipped ==
    /\ HandAssembled
    /\ manifest = << ML("bytes", <<"0", "x", "0", "A", "_", "0", "b", " ", ";">>, ""),
                     ML("halt", <<>>, "") >>
    /\ asmrc = 0
    /\ binary = <<10, 11, ISA_OPCODE_HALT, 0, 0, 0, 0, 0, 0, 0>>

\* the IRs that agree with p on its kind and on the fields of its variant
SameVariant(p) ==
    CASE p.kind = PROGRAM_STRING ->
            {[p EXCEPT !.loop = l, !.pi = q] :
                l \in {loop_ir0, [loop_ir0 EXCEPT !.counter_init = MaxCounter]},
                q \in {pi_ir0, [pi_ir0 EXCEPT !.numerator_value = MaxCounter]}}
      [] p.kind = PROGRAM_LOOP_SUM ->
            {[p EXCEPT !.pi = q, !.bindings = b] :
                q \in {pi_ir0, [pi_ir0 EXCEPT !.numerator_value = MaxCounter]},
                b \in {<<>>, <<[name |-> "greeting", literal |-> <<"h">>]>>}}
      [] p.kind = PROGRAM_PI_TEST ->
            {[p EXCEPT !.loop = l, !.bindings = b] :
                l \in {loop_ir0, [loop_ir0 EXCEPT !.counter_init = MaxCounter]},
                b \in {<<>>, <<[name |-> "greeting", literal |-> <<"h">>]>>}}
      [] OTHER -> {p}

Requested ==
    <<"compile">>
    \o (IF paths.binary_path THEN <<"assemble">> ELSE <<>>)
    \o (IF paths.exe_path THEN <<"exe">> ELSE <<>>)

\* the return code of a stage that ran
StageRc(stage) ==
    CASE stage = "compile" -> (IF loadrc # 0 THEN loadrc ELSE emitrc)
      [] stage = "assemble" -> asmrc
      [] stage = "exe" -> exerc

Returned == pc = "returned"

StagesInOrder ==
    /\ Len(stages) <= Len(Requested)
    /\ stages = SubSeq(Requested, 1, Len(stages))
    /\ \A i \in 1..(Len(stages) - 1) : StageRc(stages[i]) = 0
    /\ mopen <= 1 /\ bopen <= 1
    /\ ("assemble" \in {stages[i] : i \in 1..Len(stages)}) = (bopen = 1)
    /\ ("exe" \in {stages[i] : i \in 1..Len(stages)}) = (exerc # -1)
    /\ (\E i \in 1..Len(stages) : StageRc(stages[i]) # 0) =>
           Returned /\ exit_status = EXIT_FAILURE
    /\ ~paths.output_path =>
           /\ stages = <<>> /\ loadrc = -1 /\ mopen = 0 /\ bopen = 0
           /\ Returned => exit_status = EXIT_FAILURE
    /\ Returned /\ exit_status = EXIT_SUCCESS =>
           stages = Requested /\ \A i \in 1..Len(stages) : StageRc(stages[i]) = 0
    /\ Returned = (exit_status # -1)

\* C20: main runs compile-to-manifest, then the assembler if a binary is
\* requested, then compile-to-executable if one is requested; a stage starts
\* only after every earlier stage returned 0, the first failing stage ends the
\* run with EXIT_FAILURE, no stage runs twice, and a missing output path fails
\* before any stage.
C20_StagesInOrder ==
    /\ []StagesInOrder
    /\ [][stages' # stages => exit_status = -1 /\ Len(stages') = Len(stages) + 1]_vars

\* a run with all three outputs requested whose assembly failed: it returned
\* EXIT_FAILURE and aurc_compile_to_exe was not called
C20_AssemblyFailureEndsRun ==
    /\ Returned
    /\ paths = [output_path |-> TRUE, binary_path |-> TRUE, exe_path |-> TRUE]
    /\ stages = <<"compile", "assemble">>
    /\ asmrc = 1
    /\ exerc = -1
    /\ exit_status = EXIT_FAILURE

LoopAccepted == Loaded /\ ran = <<"loop">> /\ loadrc = 0

SrcWhileLines == {i \in 1..Len(src) : src[i].k = "while"}

\* C21: the Loop-Sum recognizer accepts a program only when it has exactly one
\* while line, of the form `while COUNTER > 0 {`, whose body is the two
\* statements and then the closing brace.
C21_SingleLoopShape ==
    LoopAccepted =>
        /\ Cardinality(SrcWhileLines) = 1
        /\ \A i \in SrcWhileLines :
               /\ src[i].y = "0"
               /\ i + 3 <= Len(src)
               /\ src[i + 3] = CloseBrace

\* `while n > 5 {` with the two body statements was lowered as a Loop-Sum
\* program
C21_OtherBoundAccepted ==
    /\ LoopAccepted /\ pc = "compiled"
    /\ ir.kind = PROGRAM_LOOP_SUM
    /\ \E i \in SrcWhileLines : src[i] = While("n", "5")

\* a String program that reaches the resolution of the print target: it has
\* bindings within the table, a print request, and numeric exit and return
\* statements
SrcReachesResolution ==
    /\ Loaded /\ ran = <<"string">>
    /\ err \notin {"duplicate string binding", "too many string bindings",
                   "expected at least one string binding", "expected print service call",
                   "expected exit + return statements"}

\* the text of the print request the recognizer keeps: the last one that parses
SrcPrintArg ==
    LET prints == SelectSeq(src, LAMBDA l : l.k = "print" /\ l.x # "") IN
    IF prints = <<>> THEN "" ELSE prints[Len(prints)].x

SrcDeclaresString(name) ==
    \E i \in 1..Len(SrcStringDecls) : SrcStringDecls[i].n = name

PrintDiagnostics ==
    {"print argument must reference a string binding",
     "print argument must match resolved binding name"}

\* C22: resolution of the print target does not depend on line order: when a
\* binding with the print argument's name is declared anywhere in the program
\* the print request resolves to it, and the program fails with the
\* unresolved-print-argument error exactly when no such binding is declared.
C22_PrintResolutionOrderFree ==
    SrcReachesResolution =>
        /\ SrcDeclaresString(SrcPrintArg) =>
               /\ err \notin PrintDiagnostics
               /\ ir.bindings[ir.print_binding_index + 1].name = SrcPrintArg
        /\ ~SrcDeclaresString(SrcPrintArg) <=>
               err = "print argument must reference a string binding"

\* print(greeting), print(other), and `other` declared after them: refused,
\* the index of greeting was kept
C22_LaterBindingRefused ==
    /\ SrcReachesResolution
    /\ Len(SelectSeq(src, LAMBDA l : l.k = "print")) = 2
    /\ SrcPrintArg = "other" /\ SrcDeclaresString("other")
    /\ loadrc = 1
    /\ err = "print argument must match resolved binding name"
    /\ ir.print_binding_index = 0

\* offset in the image of what manifest line i appends
OffsetOf(i) == Len(aurc_assemble_manifest(SubSeq(manifest, 1, i - 1)).out)

\* bytes the data block starting at manifest line i (label, ascii, pad) takes
BlockLength(i) == OffsetOf(i + 3) - OffsetOf(i)

DataAlignment == 16

\* C23: in the assembled image of a String program every data block is the
\* literal's bytes padded with zero bytes to a multiple of 16, and so every
\* data block starts at an offset that is a multiple of 16.
C23_DataBlocksAligned ==
    WriterAssembled /\ ir.kind = PROGRAM_STRING /\ asmrc = 0 =>
        \A k \in 1..Len(BlockStarts) :
            /\ BlockLength(BlockStarts[k]) % DataAlignment = 0
            /\ OffsetOf(BlockStarts[k]) % DataAlignment = 0

\* two bindings with the literals h and hn: the first block takes 1 + 16
\* bytes and the second one starts at offset 16 + 17
C23_SecondBlockUnaligned ==
    /\ WriterAssembled /\ ir.kind = PROGRAM_STRING /\ asmrc = 0
    /\ Len(BlockStarts) = 2
    /\ ir.bindings[1].literal = <<"h">>
    /\ BlockLength(BlockStarts[1]) = 1 + 16
    /\ OffsetOf(BlockStarts[2]) = 16 + 17
    /\ SubSeq(binary, 17, 33) = <<CharCode("h")>> \o Zeros(16)

\* between the stages and after a failure no function is running
BetweenStages == pc \in {"start", "emit", "compiled", "assembled", "failed"}

WriteHandles == {"manifest w", "binary w"}

\* C24 as stated: a handle opened by a stage is closed when the stage has
\* returned, the manifest is closed by the writer before the assembler opens
\* it, and no stage holds two handles at the same time.
C24_OneHandleAtATime ==
    /\ BetweenStages => handles = {}
    /\ "manifest w" \in handles => handles = {"manifest w"}
    /\ Cardinality(handles) <= 1

\* C24: a handle opened by a stage is closed when the stage has returned, on
\* success and on failure; the manifest is closed by the writer before the
\* assembler opens it; no stage holds two output handles at the same time,
\* and the only two handles held together are the assembler's manifest input
\* and binary output.
C24_HandlesReleased ==
    /\ BetweenStages => handles = {}
    /\ "manifest w" \in handles => handles = {"manifest w"}
    /\ Cardinality(handles \cap WriteHandles) <= 1
    /\ Cardinality(handles) > 1 => pc = "loop" /\ handles = {"manifest r", "binary w"}

\* the assembler in its loop: the manifest open for reading and the binary
\* open for writing
C24_AssemblerHoldsTwo ==
    /\ pc = "loop"
    /\ handles = {"manifest r", "binary w"}
    /\ mopen = 1 /\ bopen = 1 /\ emitrc = 0

\* the byte values the encoder writes for each kind of operand
RegisterBytes == ISA_REG_R0 .. ISA_REG_R7
ConditionBytes ==
    {ISA_COND_EQ, ISA_COND_NE, ISA_COND_LT, ISA_COND_LE, ISA_COND_GT, ISA_COND_GE}
OperandTags ==
    [register |-> RegisterBytes, unused |-> {ISA_OPERAND_UNUSED},
     label |-> {ISA_OPERAND_LABEL}, immediate |-> {ISA_OPERAND_IMMEDIATE},
     condition |-> ConditionBytes]

\* the kinds an operand byte of this value may be
KindsOf(b) == {k \in DOMAIN OperandTags : b \in OperandTags[k]}

\* C25: the kind of every operand byte of every word of a written manifest
\* (register, unused, label, immediate, condition code) is determined by the
\* value of the byte.
C25_OperandTagsDistinct ==
    ManifestWritten =>
        \A u \in ManifestWords : \A b \in {u.op0, u.op1, u.op2} : Cardinality(KindsOf(b)) = 1

\* the word `mov r0, #0` of a String manifest: byte 0x00 is the register R0 in
\* operand 0 and the unused marker in operand 2
C25_RegisterZeroIsUnusedMarker ==
    /\ ManifestWritten /\ ir.kind = PROGRAM_STRING
    /\ encode_mov_immediate(ISA_REG_R0, 0) = <<ISA_OPCODE_MOV, 0, ISA_OPERAND_IMMEDIATE, 0, 0, 0, 0, 0>>
    /\ \E i \in 1..Len(manifest) :
           /\ manifest[i].kw = "bytes"
           /\ WordOf(manifest[i]) = encode_mov_immediate(ISA_REG_R0, 0)
    /\ KindsOf(ISA_REG_R0) = {"register", "unused"}

\* the numeral of the last exit request / return statement that carries one
SrcCode(k) ==
    LET c == SelectSeq(src, LAMBDA l : l.k = k /\ IsNumeral(l.x)) IN
    IF c = <<>> THEN "" ELSE c[Len(c)].x

\* C26: a String program is accepted only if its exit code and its return
\* code are both 0; one whose codes are equal but not 0 is rejected by
\* validate_program; so the constant `mov r0, #0` of the String template
\* loads the exit code the program declares in every manifest written.
C26_StringExitCodeZero ==
    Loaded /\ ran = <<"string">> =>
        /\ loadrc = 0 => SrcCode("exit") = "0" /\ SrcCode("return") = "0"
        /\ SrcCode("exit") = SrcCode("return") /\ SrcCode("exit") \notin {"", "0"} =>
               loadrc = 1
        /\ StringManifestWritten =>
               \A m \in MovImmediates :
                   m[1] = ISA_REG_R0 => strtoll(SrcCode("exit")) = [q |-> 0, r |-> m[2]]

\* the same for the programs whose codes are numerals of the int range
C26_InRangeExitCodeZero ==
    (\A k \in {"exit", "return"} : IsNumeral(SrcCode(k)) => strtoll(SrcCode(k)).q = 0) =>
        C26_StringExitCodeZero

\* `request service exit(4294967296); return 4294967296;` accepted, and
\* its manifest written with mov r0, #0
C26_WrappedExitCodeAccepted ==
    /\ StringManifestWritten
    /\ SrcCode("exit") = "4294967296" /\ SrcCode("return") = "4294967296"
    /\ ir.exit_value = 0
    /\ <<ISA_REG_R0, 0>> \in MovImmediates

\* `request service exit(1); return 1;` refused by the validator
C26_EqualNonZeroRejected ==
    /\ Loaded /\ ran = <<"string">>
    /\ SrcCode("exit") = "1" /\ SrcCode("return") = "1"
    /\ loadrc = 1 /\ err = "only exit code 0 supported"

SrcLiteralHasOperator ==
    \E i \in 1..Len(src) :
        src[i].k = "letstr" /\ \E j \in 1..Len(src[i].lit) : src[i].lit[j] \in {"*", "/"}

SrcHasStatement(k) == \E i \in 1..Len(src) : src[i].k = k

\* C27: classification looks at the text of the lines: a program compiled as
\* a String program has no line starting with `while` and no `*` or `/` on
\* any line, string literals included; a program with a string binding whose
\* literal holds `*` or `/`, and no while line, is given to the Pi recognizer
\* and, when it lacks a multiplication or a division statement, fails to
\* compile and no String manifest is written.
C27_ClassifiedByLineText ==
    Loaded =>
        /\ loadrc = 0 /\ ir.kind = PROGRAM_STRING =>
               /\ ran = <<"string">>
               /\ ~SrcHasWhile /\ ~SrcHasOperator /\ ~SrcLiteralHasOperator
        /\ SrcLiteralHasOperator /\ ~SrcHasWhile =>
               /\ ran = <<"pi">>
               /\ ir.kind # PROGRAM_STRING
               /\ ~StringManifestWritten
               /\ ~(SrcHasStatement("letmul") /\ SrcHasStatement("letdiv")) =>
                      /\ loadrc = 1 /\ emitrc # 0
                      /\ pc \notin {"compiled", "assembled", "eval"}
                      /\ manifest = <<>>

\* `let greeting: string = "h/";` with print, exit(0) and return 0, and no
\* arithmetic statement, refused by the Pi recognizer
C27_OperatorInLiteralRefused ==
    /\ Loaded /\ loadrc = 1
    /\ SrcLiteralHasOperator /\ ~SrcHasWhile
    /\ ~SrcHasStatement("letmul") /\ ~SrcHasStatement("letdiv")
    /\ SrcArg("print") = "greeting" /\ SrcArg("exit") = "0" /\ SrcArg("return") = "0"
    /\ \E i \in 1..Len(src) : src[i].k = "letstr" /\ src[i].lit = <<"h", "/">>
    /\ ran = <<"pi">>
    /\ err = "requires multiplication and division statements"

====
